---- MODULE Spec2Model ----
(***************************************************************************)
(* A model of birdnet-pi2go: the batch driver (convertAndTransferData),    *)
(* the per-record file transfers it dispatches as goroutines               *)
(* (handleFileTransferWithFS) and the merge driver (MergeDatabases).       *)
(*                                                                         *)
(* Strings are sequences of character codes, so that SQLite's text         *)
(* comparison, Go's time.Parse / Format and strings.ReplaceAll are         *)
(* computed on the characters and not assumed.                             *)
(***************************************************************************)
EXTENDS Integers, Sequences, FiniteSets, TLC

(***************************************************************************)
(* Bounds of the model.                                                    *)
(***************************************************************************)
\* rows of the source store in the resume model (SpecDB)
MaxRecordsDB == 3
\* rows of the source store in the transfer model (Spec)
MaxRecords == 2
\* invocations of the program on the same source and target (SpecDB)
MaxRuns == 2
\* page size of the batch loops; stands for the 1000 of dbops.go:175, :354
\* and :398, scaled down so that a run has more than one page
batchSize == 2
\* calls of performFileOperationWithFS in a row (SpecMove)
MaxCalls == 2

(***************************************************************************)
(* String literals.                                                        *)
(***************************************************************************)
\* "Extracted"
Str_Extracted == <<69, 120, 116, 114, 97, 99, 116, 101, 100>>
\* "By_Date"
Str_By_Date == <<66, 121, 95, 68, 97, 116, 101>>
\* "birdsongs" : the -source-dir of the invocation
sourceFilesDir == <<98, 105, 114, 100, 115, 111, 110, 103, 115>>
\* "clips" : the -target-dir of the invocation (its default)
targetFilesDir == <<99, 108, 105, 112, 115>>
\* "2023-01-14"
Date_0114 == <<50, 48, 50, 51, 45, 48, 49, 45, 49, 52>>
\* "2023-01-15"
Date_0115 == <<50, 48, 50, 51, 45, 48, 49, 45, 49, 53>>
\* "2023-01-15T10:00:00Z"
Date_0115_RFC == <<50, 48, 50, 51, 45, 48, 49, 45, 49, 53, 84, 49, 48, 58, 48, 48, 58, 48, 48, 90>>
\* "10:00:00"
Time_10 == <<49, 48, 58, 48, 48, 58, 48, 48>>
\* "11:00:00"
Time_11 == <<49, 49, 58, 48, 48, 58, 48, 48>>
\* "Pica pica"
Sci_Pica == <<80, 105, 99, 97, 32, 112, 105, 99, 97>>
\* "Test Bird"
Com_TestBird == <<84, 101, 115, 116, 32, 66, 105, 114, 100>>
\* "Steller's Jay"
Com_Stellers == <<83, 116, 101, 108, 108, 101, 114, 39, 115, 32, 74, 97, 121>>
\* "a.wav"
File_a == <<97, 46, 119, 97, 118>>
\* "b.wav"
File_b == <<98, 46, 119, 97, 118>>
\* "x.mp3"
File_x_mp3 == <<120, 46, 109, 112, 51>>
\* "2023-02-30" : a date no layout accepts
Date_0230 == <<50, 48, 50, 51, 45, 48, 50, 45, 51, 48>>
\* "13:45:30"
Time_1345 == <<49, 51, 58, 52, 53, 58, 51, 48>>
\* "Corvus corax"
Sci_Corvus == <<67, 111, 114, 118, 117, 115, 32, 99, 111, 114, 97, 120>>
\* "Sitta-europaea:Complex"
Sci_Sitta == <<83, 105, 116, 116, 97, 45, 101, 117, 114, 111, 112, 97, 101, 97, 58, 67, 111, 109, 112, 108, 101, 120>>

(***************************************************************************)
(* Text: comparison as SQLite's BINARY collation does it (bytewise, a      *)
(* proper prefix is smaller), and the Go strings functions the code uses.  *)
(***************************************************************************)
StrLess(a, b) ==
    \E i \in 1..Len(b) :
        /\ \A j \in 1..(i - 1) : j <= Len(a) /\ a[j] = b[j]
        /\ (i > Len(a) \/ a[i] < b[i])

ToLower(s) ==
    [i \in 1..Len(s) |-> IF s[i] >= 65 /\ s[i] <= 90 THEN s[i] + 32 ELSE s[i]]

RECURSIVE ReplaceAll(_, _, _)
\* strings.ReplaceAll(s, old, new) for a one-character old
ReplaceAll(s, old, new) ==
    IF s = <<>> THEN <<>>
    ELSE (IF Head(s) = old THEN new ELSE <<Head(s)>>) \o ReplaceAll(Tail(s), old, new)

RECURSIVE Itoa(_)
\* fmt's %d of a non-negative integer
Itoa(n) ==
    IF n < 10 THEN <<48 + n>> ELSE Itoa(n \div 10) \o <<48 + (n % 10)>>

Pad2(n) == <<48 + ((n \div 10) % 10), 48 + (n % 10)>>

Pad4(n) == Pad2(n \div 100) \o Pad2(n % 100)

\* filepath.Ext: the suffix of the last path element from its last dot on
Ext(name) ==
    LET dots == {i \in 1..Len(name) :
                    /\ name[i] = 46
                    /\ \A j \in i..Len(name) : name[j] # 47}
    IN  IF dots = {} THEN <<>>
        ELSE LET last == CHOOSE i \in dots : \A k \in dots : k <= i
             IN  SubSeq(name, last, Len(name))

\* filepath.Join: the non-empty elements, in order (a path is the sequence
\* of its elements)
Join(elems) == SelectSeq(elems, LAMBDA e : e # <<>>)

(***************************************************************************)
(* Go's time.Parse for the three layouts the code uses, and time.Format.   *)
(* The layouts' fixed-width fields are read digit by digit and range       *)
(* checked as time.Parse does; fractional seconds of RFC3339 are not       *)
(* modelled.                                                               *)
(***************************************************************************)
IsDigit(c) == c >= 48 /\ c <= 57

Num2(s, i) == (s[i] - 48) * 10 + (s[i + 1] - 48)

Num4(s, i) == Num2(s, i) * 100 + Num2(s, i + 2)

IsLeap(y) == y % 4 = 0 /\ (y % 100 # 0 \/ y % 400 = 0)

DaysIn(y, m) ==
    IF m = 2 THEN (IF IsLeap(y) THEN 29 ELSE 28)
    ELSE IF m \in {4, 6, 9, 11} THEN 30 ELSE 31

NoTime == [ok |-> FALSE, year |-> 0, month |-> 0, day |-> 0,
           hour |-> 0, minute |-> 0, second |-> 0]

\* s[1..10] is a valid "2006-01-02"
DateFieldOK(s) ==
    /\ Len(s) >= 10
    /\ \A i \in {1, 2, 3, 4, 6, 7, 9, 10} : IsDigit(s[i])
    /\ s[5] = 45 /\ s[8] = 45
    /\ Num2(s, 6) \in 1..12
    /\ Num2(s, 9) >= 1 /\ Num2(s, 9) <= DaysIn(Num4(s, 1), Num2(s, 6))

\* s[o..o+7] is a valid "15:04:05"
ClockFieldOK(s, o) ==
    /\ Len(s) >= o + 7
    /\ \A i \in {o, o + 1, o + 3, o + 4, o + 6, o + 7} : IsDigit(s[i])
    /\ s[o + 2] = 58 /\ s[o + 5] = 58
    /\ Num2(s, o) <= 23 /\ Num2(s, o + 3) <= 59 /\ Num2(s, o + 6) <= 59

\* "Z07:00" from position 20 on
ZoneFieldOK(s) ==
    \/ Len(s) = 20 /\ s[20] = 90
    \/ /\ Len(s) = 25
       /\ s[20] \in {43, 45}
       /\ \A i \in {21, 22, 24, 25} : IsDigit(s[i])
       /\ s[23] = 58
       /\ Num2(s, 21) <= 23 /\ Num2(s, 24) <= 59

TimeOf(s, withClock) ==
    [ok |-> TRUE, year |-> Num4(s, 1), month |-> Num2(s, 6), day |-> Num2(s, 9),
     hour |-> IF withClock THEN Num2(s, 12) ELSE 0,
     minute |-> IF withClock THEN Num2(s, 15) ELSE 0,
     second |-> IF withClock THEN Num2(s, 18) ELSE 0]

\* time.Parse(time.RFC3339, s)
ParseRFC3339(s) ==
    IF /\ DateFieldOK(s) /\ Len(s) >= 20 /\ s[11] = 84
       /\ ClockFieldOK(s, 12) /\ ZoneFieldOK(s)
    THEN TimeOf(s, TRUE) ELSE NoTime

\* time.Parse("2006-01-02", s)
ParseDate(s) ==
    IF Len(s) = 10 /\ DateFieldOK(s) THEN TimeOf(s, FALSE) ELSE NoTime

\* time.Parse("2006-01-02T15:04:05", s)
ParseDateTime(s) ==
    IF Len(s) = 19 /\ DateFieldOK(s) /\ s[11] = 84 /\ ClockFieldOK(s, 12)
    THEN TimeOf(s, TRUE) ELSE NoTime

\* t.Format("2006-01-02")
FormatDate(t) == Pad4(t.year) \o <<45>> \o Pad2(t.month) \o <<45>> \o Pad2(t.day)

\* a faulty stamp: the date without the time of day
FormatClipStamp_dateOnly(t) == Pad4(t.year) \o Pad2(t.month) \o Pad2(t.day) \o <<90>>

\* t.Format("20060102T150405Z")
FormatClipStamp(t) ==
    Pad4(t.year) \o Pad2(t.month) \o Pad2(t.day) \o <<84>>
        \o Pad2(t.hour) \o Pad2(t.minute) \o Pad2(t.second) \o <<90>>

(***************************************************************************)
(* Records of the two stores.  A confidence c stands for c/10000; the      *)
(* other REAL columns are carried as opaque numbers.                       *)
(***************************************************************************)
\* type Detection (a row of the source store's detections table)
Detection(date, time, comName, fileName) ==
    [Date |-> date, Time |-> time, SciName |-> Sci_Pica, ComName |-> comName,
     Confidence |-> 8500, Lat |-> 42, Lon |-> 71, Cutoff |-> 5, Week |-> 3,
     Sens |-> 1, Overlap |-> 0, FileName |-> fileName]

\* a faulty percentage: rounded to the nearest integer
ConfidencePercent_rounded(c) == (c * 100 + 5000) \div 10000

\* int(detection.Confidence*100)
ConfidencePercent(c) == (c * 100) \div 10000

\* GenerateClipName: "" when date+"T"+time does not parse
GenerateClipName(detection) ==
    LET parsedDate == ParseDateTime(detection.Date \o <<84>> \o detection.Time)
        sciNameFormatted ==
            ReplaceAll(ReplaceAll(ReplaceAll(ToLower(detection.SciName),
                                             32, <<95>>), 45, <<>>), 58, <<>>)
        confidencePercentage ==
            Itoa(ConfidencePercent(detection.Confidence)) \o <<112>>
    IN  IF ~parsedDate.ok THEN <<>>
        ELSE sciNameFormatted \o <<95>> \o confidencePercentage \o <<95>>
                \o FormatClipStamp(parsedDate) \o Ext(detection.FileName)

\* a faulty rewrite: the date is formatted although neither layout parsed
\* it, which gives the zero time "0001-01-01"
NormalizeDate_zero(detection) ==
    LET rfc == ParseRFC3339(detection.Date)
        ymd == ParseDate(detection.Date)
    IN  IF rfc.ok THEN [detection EXCEPT !.Date = FormatDate(rfc)]
        ELSE IF ymd.ok THEN [detection EXCEPT !.Date = FormatDate(ymd)]
        ELSE [detection EXCEPT !.Date = <<48, 48, 48, 49, 45, 48, 49, 45, 48, 49>>]

\* the in-place rewrite of detection.Date by convertDetectionToNote:
\* RFC3339 first, then "2006-01-02", else the string as it is
NormalizeDate(detection) ==
    LET rfc == ParseRFC3339(detection.Date)
        ymd == ParseDate(detection.Date)
    IN  IF rfc.ok THEN [detection EXCEPT !.Date = FormatDate(rfc)]
        ELSE IF ymd.ok THEN [detection EXCEPT !.Date = FormatDate(ymd)]
        ELSE detection

\* the Note convertDetectionToNote returns (the ID is the store's to give)
convertDetectionToNote(detection) ==
    LET d == NormalizeDate(detection)
    IN  [Date |-> d.Date, Time |-> d.Time, ScientificName |-> d.SciName,
         CommonName |-> d.ComName, Confidence |-> d.Confidence,
         Latitude |-> d.Lat, Longitude |-> d.Lon, Threshold |-> d.Cutoff,
         Sensitivity |-> d.Sens, ClipName |-> GenerateClipName(d),
         Verified |-> "unverified"]

(***************************************************************************)
(* The queries.  A store's table is the sequence of its rows in rowid      *)
(* order; a Note's ID is its position.  SQLite sorts a scan stably, so     *)
(* rows that tie on (date, time) come in rowid order on every page.        *)
(***************************************************************************)
\* a faulty query: ORDER BY date DESC alone (and then by ID)
findLastEntryInTargetDB_dateOnly(notes) ==
    LET first(a, b) == \/ StrLess(notes[b].Date, notes[a].Date)
                       \/ notes[a].Date = notes[b].Date /\ a <= b
    IN  IF notes = <<>> THEN <<>>
        ELSE <<notes[CHOOSE a \in 1..Len(notes) :
                         \A b \in 1..Len(notes) : first(a, b)]>>

\* findLastEntryInTargetDB: ORDER BY date DESC, time DESC (and then by ID,
\* which First adds) LIMIT 1; <<>> is the nil Note of an empty table
findLastEntryInTargetDB(notes) ==
    LET later(a, b) == \/ StrLess(notes[a].Date, notes[b].Date)
                       \/ /\ notes[a].Date = notes[b].Date
                          /\ StrLess(notes[a].Time, notes[b].Time)
        first(a, b) == later(b, a) \/ (~later(a, b) /\ a <= b)
    IN  IF notes = <<>> THEN <<>>
        ELSE <<notes[CHOOSE a \in 1..Len(notes) :
                         \A b \in 1..Len(notes) : first(a, b)]>>

\* formulateQuery
formulateQuery(lastNote) ==
    IF lastNote # <<>>
    THEN [whereClause |-> "date > ? OR (date = ? AND time > ?)",
          params |-> <<lastNote[1].Date, lastNote[1].Date, lastNote[1].Time>>]
    ELSE [whereClause |-> "", params |-> <<>>]

\* a faulty clause: "date > ? OR (date = ? AND time >= ?)"
WhereHolds_inclusive(q, row) ==
    IF q.whereClause = "" THEN TRUE
    ELSE \/ StrLess(q.params[1], row.Date)
         \/ /\ row.Date = q.params[2]
            /\ ~StrLess(row.Time, q.params[3])

\* query.Where(whereClause, params...) on one row, applied only when the
\* clause is not empty
WhereHolds(q, row) ==
    IF q.whereClause = "" THEN TRUE
    ELSE \/ StrLess(q.params[1], row.Date)
         \/ /\ row.Date = q.params[2]
            /\ StrLess(q.params[3], row.Time)

\* the rowids the query selects
Selected(rows, q) == {k \in 1..Len(rows) : WhereHolds(q, rows[k])}

\* getTotalRecordCount
getTotalRecordCount(rows, q) == Cardinality(Selected(rows, q))

\* Order("date ASC, time ASC"): does rowid a come before rowid b
OrderBefore(rows, a, b) ==
    \/ StrLess(rows[a].Date, rows[b].Date)
    \/ /\ rows[a].Date = rows[b].Date
       /\ StrLess(rows[a].Time, rows[b].Time)
    \/ /\ rows[a].Date = rows[b].Date
       /\ rows[a].Time = rows[b].Time
       /\ a < b

\* the rowids of S as the sequence the order puts them in
Ordered(rows, S) ==
    [p \in 1..Cardinality(S) |->
        CHOOSE k \in S : Cardinality({j \in S : OrderBefore(rows, j, k)}) = p - 1]

\* OFFSET off LIMIT lim of a sequence
Page(s, off, lim) ==
    IF off >= Len(s) THEN <<>>
    ELSE SubSeq(s, off + 1, IF off + lim < Len(s) THEN off + lim ELSE Len(s))

\* fetchBatch: the rowids of the page (the rows are rows[k])
fetchBatch(rows, off, lim, q) == Page(Ordered(rows, Selected(rows, q)), off, lim)

\* the unordered LIMIT/OFFSET scans of mergeNotes and mergeDetections
ScanPage(rows, off, lim) == Page([k \in 1..Len(rows) |-> k], off, lim)

(***************************************************************************)
(* The filesystem (FileSystem / OsFS): the existing files with their       *)
(* content, and the directories MkdirAll has made.                         *)
(***************************************************************************)
FileExists(fs, name) == name \in DOMAIN fs

\* a faulty write: the file is created and left empty
WriteFile_empty(fs, name, data) ==
    [q \in DOMAIN fs \cup {name} |-> IF q = name THEN <<>> ELSE fs[q]]

\* a successful os.WriteFile: the file holds exactly data afterwards
WriteFile(fs, name, data) ==
    [q \in DOMAIN fs \cup {name} |-> IF q = name THEN data ELSE fs[q]]

\* a successful os.Remove
Remove(fs, name) == [q \in DOMAIN fs \ {name} |-> fs[q]]

\* the source artifact under the first naming convention (fileops.go:74)
SourcePathVerbatim(detection) ==
    Join(<<sourceFilesDir, Str_Extracted, Str_By_Date, detection.Date,
           detection.ComName, detection.FileName>>)

\* ... and under the second one (fileops.go:79-81)
SourcePathFormatted(detection) ==
    LET comNameFormatted ==
            ReplaceAll(ReplaceAll(detection.ComName, 32, <<95>>), 39, <<>>)
    IN  Join(<<sourceFilesDir, Str_Extracted, Str_By_Date, detection.Date,
               comNameFormatted, detection.FileName>>)

\* a faulty lookup: the formatted path is tried first
ResolveSourcePath_formattedFirst(fs, detection) ==
    IF FileExists(fs, SourcePathFormatted(detection))
    THEN SourcePathFormatted(detection) ELSE SourcePathVerbatim(detection)

\* sourceFilePath after the lookup (fileops.go:74-86): the verbatim path if
\* it exists, else the formatted one, existing or not
ResolveSourcePath(fs, detection) ==
    IF FileExists(fs, SourcePathVerbatim(detection))
    THEN SourcePathVerbatim(detection) ELSE SourcePathFormatted(detection)

\* targetSubDir (fileops.go:99-103)
TargetSubDir(parsedDate) ==
    Join(<<targetFilesDir, Pad4(parsedDate.year), Pad2(parsedDate.month)>>)

\* the bytes of the artifact at a source path: they stand for the path, so
\* that any two files differ in content
Content(path) == path

(***************************************************************************)
(* State.                                                                  *)
(***************************************************************************)
VARIABLES
    source,             \* source store: rows of the detections table
    srcNotes,           \* source store: rows of the notes table
    srcTables,          \* source store: the tables it has
    target,             \* target store: rows of the notes table
    files,              \* filesystem: path -> content
    dirs,               \* filesystem: target directories made so far
    mode,               \* -operation: "copy", "move" or "merge"
    skipAudioTransfer,  \* -skip-audio-transfer
    samePath,           \* -source-db and -target-db name the same file
    env,                \* what main finds: -source-dir given, the answer to
                        \* the prompt of a move, room on the target volume
    dbFiles,            \* the store files that exist: "source", "target"
    probeError,         \* the count of the source's notes failed in this run
    pc,                 \* where the main goroutine is
    driver,             \* "batch", "mergeNotes", "mergeDetections" or "none"
    lastNote,           \* convertAndTransferData: the watermark, <<>> if nil
    query,              \* whereClause and params
    totalCount,
    offset,
    batch,              \* batchDetections, as rowids of the source table
    idx,                \* position of the loop in batch
    tasks,              \* the goroutines started by processDetection
    call,               \* the frame of a performFileOperationWithFS call
    result,             \* how the invocation ended
    runNo,              \* history: invocations so far
    log,                \* history: <<row, ok>> of each insert of this run
    fetches,            \* history: the sizes of the pages this run has fetched
    wmError,            \* history: the watermark query of this run failed
    baseLen,            \* history: Len(target) when this run started
    insCount,           \* history: inserts per source row, over all runs
    batchDone,          \* history: rows of the batches this run completed
    settled,            \* history: rows of batches completed before a kill
    prevClean,          \* history: the run before completed, no insert failed
    exitCodes           \* history: the exit status of each invocation so far,
                        \* -1 for a process that was killed

storeVars == <<source, srcNotes, srcTables, target>>

fsVars == <<files, dirs>>

flagVars == <<mode, skipAudioTransfer, samePath, env>>

callVars == <<call>>

\* what only the entry of an invocation sets
entryVars == <<dbFiles, probeError>>

loopVars == <<driver, lastNote, query, totalCount, offset, batch, idx>>

histVars == <<runNo, log, fetches, wmError, baseLen, insCount, batchDone,
              settled, prevClean, exitCodes>>

vars == <<storeVars, fsVars, flagVars, callVars, entryVars, pc, loopVars, tasks, result,
          histVars>>

\* the states of a goroutine that has not returned yet
InFlightPcs == {"resolve", "mkdir", "read", "write", "remove", "report"}

InFlight == {j \in 1..Len(tasks) : tasks[j].pc \in InFlightPcs}

Range(s) == {s[i] : i \in 1..Len(s)}

SeqsUpTo(S, n) == UNION {[1..m -> S] : m \in 0..n}

(***************************************************************************)
(* The batch driver: convertAndTransferData, processRecordsInBatches and   *)
(* processDetection.  The program is invoked, runs to its end or is        *)
(* killed, and may be invoked again on the same stores and directories.    *)
(***************************************************************************)
\* the loop condition of processRecordsInBatches: offset < totalCount
LoopPc(off, total) == IF off < total THEN "fetch" ELSE "done"

\* a faulty increment: the next page overlaps the last row of this one
NextOffset_overlap(off) == off + batchSize - 1

\* its increment: offset += batchSize
NextOffset(off) == off + batchSize

\* a faulty processDetection: log.Fatalf on a failed insert
InsertErrorIsFatal_fatal == TRUE

\* processDetection logs a failed insert with log.Printf and goes on
InsertErrorIsFatal == FALSE

\* a faulty convertAndTransferData: the error of the watermark query is
\* logged and the run goes on as if the target store were empty
WatermarkErrorIsFatal_logged == FALSE

\* an error of findLastEntryInTargetDB is a log.Fatalf (dbops.go:81-84)
WatermarkErrorIsFatal == TRUE

\* a faulty processDetection: the transfer is started whatever the flag says
TransferDispatched_always(skip) == TRUE

\* `if !skipAudioTransfer` of processDetection (dbops.go:214)
TransferDispatched(skip) == ~skip

\* a faulty processDetection: the goroutine gets the record as fetched
TransferDetection_raw(detection) == detection

\* the record the goroutine gets: processDetection passes the pointer that
\* convertDetectionToNote has rewritten the date of, and the call has
\* returned before the go statement (dbops.go:209-215)
TransferDetection(detection) == NormalizeDate(detection)

\* what main does with its flags (main.go:44-97): the usage text and
\* os.Exit(1) when -operation is not given; log.Fatal when a transfer is
\* wanted and -source-dir is empty, when the volume of the target has no
\* room for a copy (or the room cannot be found out), or when the operation
\* is not one of copy, move and merge; os.Exit(1) when the prompt of a move
\* is not answered yes; else the call of the driver
MainOutcome(operationFlag, skip, e) ==
    IF operationFlag = "" THEN "usage"
    ELSE IF operationFlag = "move"
    THEN IF ~skip /\ ~e.sourceDirGiven THEN "noSourceDir"
         ELSE IF ~skip /\ ~e.answerYes THEN "declined"
         ELSE "dispatch"
    ELSE IF operationFlag = "copy"
    THEN IF ~skip /\ ~e.sourceDirGiven THEN "noSourceDir"
         ELSE IF ~skip /\ ~e.enoughSpace THEN "noSpace"
         ELSE "dispatch"
    ELSE IF operationFlag = "merge" THEN "dispatch"
    ELSE "invalidOperation"

\* the exit status: 1 after log.Fatalf, 0 when main returns
ExitStatus(at) == IF at = "fatal" THEN 1 ELSE 0

\* main ends the process before it calls a driver: os.Exit(1) or log.Fatal
main ==
    /\ pc \in {"idle", "exited", "killed"}
    /\ runNo < MaxRuns
    /\ MainOutcome(mode, skipAudioTransfer, env) # "dispatch"
    /\ runNo' = runNo + 1
    /\ pc' = "exited"
    /\ result' = MainOutcome(mode, skipAudioTransfer, env)
    /\ exitCodes' = Append(exitCodes, 1)
    /\ driver' = "none"
    /\ log' = <<>>
    /\ fetches' = <<>>
    /\ baseLen' = Len(target)
    /\ batchDone' = {}
    /\ wmError' = FALSE
    /\ probeError' = FALSE
    /\ prevClean' = FALSE
    /\ UNCHANGED <<storeVars, fsVars, flagVars, callVars, dbFiles, lastNote, query,
                   totalCount, offset, batch, idx, tasks, insCount, settled>>

\* a faulty entry: the return after the failed os.Stat is missing
MissingSourceReturns_missing == FALSE

\* a source store path that does not exist ends convertAndTransferData (the
\* return of dbops.go:60-63)
MissingSourceReturns == TRUE

\* convertAndTransferData up to the loop: the checks of the source store,
\* the watermark, the query and the count
convertAndTransferData ==
    /\ pc \in {"idle", "exited", "killed"}
    /\ mode \in {"copy", "move"}
    /\ MainOutcome(mode, skipAudioTransfer, env) = "dispatch"
    /\ runNo < MaxRuns
    /\ runNo' = runNo + 1
    /\ log' = <<>>
    /\ fetches' = <<>>
    /\ baseLen' = Len(target)
    /\ batchDone' = {}
    /\ batch' = <<>>
    /\ idx' = 0
    /\ offset' = 0
    /\ probeError' = FALSE
    /\ \/ /\ "source" \notin dbFiles /\ MissingSourceReturns
          /\ wmError' = FALSE
          /\ pc' = "done"
          /\ result' = "sourceMissing"
          /\ driver' = "none"
          /\ UNCHANGED <<lastNote, query, totalCount, dbFiles>>
       \* gorm.Open and the first query make the file of a store
       \/ /\ "source" \in dbFiles \/ ~MissingSourceReturns
          /\ "detections" \notin srcTables
          /\ dbFiles' = dbFiles \cup {"source"}
          /\ wmError' = FALSE
          /\ pc' = "done"
          /\ result' = "noDetections"
          /\ driver' = "none"
          /\ UNCHANGED <<lastNote, query, totalCount>>
       \/ /\ "source" \in dbFiles \/ ~MissingSourceReturns
          /\ "detections" \in srcTables
          /\ dbFiles' = dbFiles \cup {"source", "target"}
          /\ driver' = "batch"
          \* findLastEntryInTargetDB returns an error: log.Fatalf
          /\ wmError' = TRUE
          /\ IF WatermarkErrorIsFatal
             THEN /\ pc' = "fatal"
                  /\ result' = "fatal"
                  /\ UNCHANGED <<lastNote, query, totalCount>>
             ELSE /\ lastNote' = <<>>
                  /\ query' = formulateQuery(lastNote')
                  /\ totalCount' = getTotalRecordCount(source, query')
                  /\ pc' = LoopPc(0, totalCount')
                  /\ result' = IF pc' = "done" THEN "completed" ELSE "none"
       \/ /\ "source" \in dbFiles \/ ~MissingSourceReturns
          /\ "detections" \in srcTables
          /\ dbFiles' = dbFiles \cup {"source", "target"}
          /\ driver' = "batch"
          /\ wmError' = FALSE
          /\ lastNote' = findLastEntryInTargetDB(target)
          /\ query' = formulateQuery(lastNote')
          /\ totalCount' = getTotalRecordCount(source, query')
          /\ pc' = LoopPc(0, totalCount')
          /\ result' = IF pc' = "done" THEN "completed" ELSE "none"
    /\ UNCHANGED <<storeVars, fsVars, flagVars, callVars, tasks, insCount, settled, prevClean, exitCodes>>

\* processRecordsInBatches, the head of one iteration: fetch the page
processRecordsInBatches ==
    /\ pc = "fetch"
    /\ driver = "batch"
    /\ batch' = fetchBatch(source, offset, batchSize, query)
    /\ fetches' = Append(fetches, Len(batch'))
    /\ idx' = 1
    /\ IF batch' = <<>>
       THEN /\ offset' = NextOffset(offset)
            /\ pc' = LoopPc(offset', totalCount)
            /\ result' = IF pc' = "done" THEN "completed" ELSE "none"
       ELSE /\ pc' = "process"
            /\ UNCHANGED <<offset, result>>
    /\ UNCHANGED <<storeVars, fsVars, flagVars, callVars, entryVars, driver, lastNote, query,
                   totalCount, tasks, runNo, log, wmError, baseLen, insCount,
                   batchDone, settled, prevClean, exitCodes>>

\* the goroutine processDetection starts: `go handleFileTransferWithFS(...)`
\* with the detection as convertDetectionToNote has rewritten it
NewTask(row, detection, noteId) ==
    [row |-> row, detection |-> detection, noteId |-> noteId, pc |-> "resolve",
     src |-> <<>>, dir |-> <<>>, dst |-> <<>>, data |-> <<>>,
     wrote |-> FALSE, removed |-> FALSE]

\* processDetection for batch[idx], and the step of the loops around it
processDetection ==
    /\ pc = "process"
    /\ driver = "batch"
    /\ LET row == batch[idx]
           note == convertDetectionToNote(source[row])
           detection == TransferDetection(source[row])
       IN  \E ok \in BOOLEAN :
             /\ target' = IF ok THEN Append(target, note) ELSE target
             /\ insCount' = IF ok THEN [insCount EXCEPT ![row] = @ + 1] ELSE insCount
             /\ log' = Append(log, [row |-> row, ok |-> ok])
             /\ IF ~ok /\ InsertErrorIsFatal
                THEN /\ pc' = "fatal"
                     /\ result' = "fatal"
                     /\ UNCHANGED <<tasks, idx, offset, batchDone>>
                ELSE /\ tasks' = IF ~TransferDispatched(skipAudioTransfer) THEN tasks
                                 ELSE Append(tasks,
                                        NewTask(row, detection,
                                                IF ok THEN Len(target') ELSE 0))
                     /\ IF idx < Len(batch)
                        THEN /\ idx' = idx + 1
                             /\ pc' = "process"
                             /\ UNCHANGED <<offset, batchDone, result>>
                        ELSE /\ idx' = idx
                             /\ offset' = NextOffset(offset)
                             /\ batchDone' = batchDone \cup Range(batch)
                             /\ pc' = LoopPc(offset', totalCount)
                             /\ result' = IF pc' = "done" THEN "completed" ELSE "none"
    /\ UNCHANGED <<source, srcNotes, srcTables, fsVars, flagVars, callVars, entryVars, driver,
                   lastNote, query, totalCount, batch, runNo, fetches, wmError,
                   baseLen, settled, prevClean, exitCodes>>

\* the process is killed while a run is under way: its goroutines die with it
Kill ==
    /\ pc \in {"fetch", "process", "mfetch", "minsert"}
    /\ pc' = "killed"
    /\ result' = "killed"
    /\ tasks' = <<>>
    /\ settled' = settled \cup batchDone
    /\ prevClean' = FALSE
    /\ exitCodes' = Append(exitCodes, -1)
    /\ UNCHANGED <<storeVars, fsVars, flagVars, callVars, entryVars, loopVars, runNo, log, fetches,
                   wmError, baseLen, insCount, batchDone>>

\* main returns (or log.Fatalf exits): the goroutines still running die
Exit ==
    /\ pc \in {"done", "fatal"}
    /\ pc' = "exited"
    /\ tasks' = <<>>
    /\ prevClean' = /\ pc = "done"
                    /\ driver = "batch"
                    /\ \A i \in 1..Len(log) : log[i].ok
    /\ exitCodes' = Append(exitCodes, ExitStatus(pc))
    /\ UNCHANGED <<storeVars, fsVars, flagVars, callVars, entryVars, loopVars, result, runNo, log,
                   fetches, wmError, baseLen, insCount, batchDone, settled>>

(***************************************************************************)
(* The merge driver: MergeDatabases, mergeNotes and mergeDetections.       *)
(***************************************************************************)
\* numBatches := (total + batchSize - 1) / batchSize
NumBatches(total) == (total + batchSize - 1) \div batchSize

\* the loop condition i < numBatches, with offset = i * batchSize
MergeLoopPc(off, total) ==
    IF off \div batchSize < NumBatches(total) THEN "mfetch" ELSE "done"

\* newNote of mergeNotes: every field but the ID
CopyNote(n) ==
    [Date |-> n.Date, Time |-> n.Time, ScientificName |-> n.ScientificName,
     CommonName |-> n.CommonName, Confidence |-> n.Confidence,
     Latitude |-> n.Latitude, Longitude |-> n.Longitude,
     Threshold |-> n.Threshold, Sensitivity |-> n.Sensitivity,
     ClipName |-> n.ClipName, Verified |-> n.Verified]

\* a faulty entry: identical paths are not rejected
SamePathRejected_missing == FALSE

\* identical source and target paths are an error (dbops.go:287-289)
SamePathRejected == TRUE

\* a faulty entry: a missing source file is not rejected
SourceMissingRejected_missing == FALSE

\* a source path that does not exist is an error (dbops.go:292-294)
SourceMissingRejected == TRUE

\* a faulty routing: a non-empty detections table wins over the notes
MergeRoute_detectionsFirst(countError, notesCount, hasDetections, detectionsCount) ==
    IF hasDetections /\ detectionsCount > 0 THEN "mergeDetections"
    ELSE IF ~countError /\ notesCount > 0 THEN "mergeNotes"
    ELSE IF ~countError \/ hasDetections THEN "nothing"
    ELSE "invalid"

\* the routing of MergeDatabases (dbops.go:302-348): the notes if their
\* count succeeds and is positive; the detections if there are any and the
\* notes are empty or could not be counted; an error if the notes could
\* not be counted and there is no detections table; else nothing to merge
MergeRoute(countError, notesCount, hasDetections, detectionsCount) ==
    IF ~countError /\ notesCount > 0 THEN "mergeNotes"
    ELSE IF hasDetections /\ detectionsCount > 0 THEN "mergeDetections"
    ELSE IF ~countError \/ hasDetections THEN "nothing"
    ELSE "invalid"

\* a faulty copy: the note keeps the ID it has in the source, and the
\* insert fails on the primary key when the target has a row with that ID
Create_keepId(notes, note, sourceId) ==
    IF sourceId <= Len(notes) THEN notes ELSE Append(notes, note)

\* targetDB.Create of a note whose ID is zero: the store gives it the next
\* ID, which is the position of the row (dbops.go:371-385, 416-417)
Create(notes, note, sourceId) == Append(notes, note)

\* MergeDatabases up to the loop: the two checks of the paths, then both
\* stores are opened with initializeAndMigrateTargetDB (which creates the
\* file and migrates the notes table into either), then the source's tables
\* are probed
MergeDatabases ==
    /\ pc \in {"idle", "exited", "killed"}
    /\ mode = "merge"
    /\ MainOutcome(mode, skipAudioTransfer, env) = "dispatch"
    /\ runNo < MaxRuns
    /\ runNo' = runNo + 1
    /\ log' = <<>>
    /\ fetches' = <<>>
    /\ baseLen' = Len(target)
    /\ batchDone' = {}
    /\ batch' = <<>>
    /\ idx' = 0
    /\ offset' = 0
    /\ wmError' = FALSE
    /\ \/ /\ samePath /\ SamePathRejected
          /\ pc' = "done"
          /\ result' = "samePathError"
          /\ driver' = "none"
          /\ totalCount' = 0
          /\ probeError' = FALSE
          /\ UNCHANGED <<srcTables, dbFiles>>
       \/ /\ ~(samePath /\ SamePathRejected)
          /\ "source" \notin dbFiles /\ SourceMissingRejected
          /\ pc' = "done"
          /\ result' = "sourceMissing"
          /\ driver' = "none"
          /\ totalCount' = 0
          /\ probeError' = FALSE
          /\ UNCHANGED <<srcTables, dbFiles>>
       \/ /\ ~(samePath /\ SamePathRejected)
          /\ ~("source" \notin dbFiles /\ SourceMissingRejected)
          /\ dbFiles' = dbFiles \cup {"source", "target"}
          /\ srcTables' = srcTables \cup {"notes"}
          /\ \E countError \in BOOLEAN :
                LET notesCount == Len(srcNotes)
                    hasDetections == "detections" \in srcTables
                    detectionsCount == Len(source)
                    route == MergeRoute(countError, notesCount, hasDetections,
                                        detectionsCount)
                IN  /\ probeError' = countError
                    /\ IF route = "mergeNotes"
                       THEN /\ driver' = "mergeNotes"
                            /\ totalCount' = notesCount
                            /\ pc' = MergeLoopPc(0, notesCount)
                            /\ result' = "none"
                       ELSE IF route = "mergeDetections"
                       THEN /\ driver' = "mergeDetections"
                            /\ totalCount' = detectionsCount
                            /\ pc' = MergeLoopPc(0, detectionsCount)
                            /\ result' = "none"
                       ELSE /\ driver' = "none"
                            /\ totalCount' = 0
                            /\ pc' = "done"
                            /\ result' = IF route = "nothing" THEN "nothingToMerge"
                                          ELSE "error"
    /\ UNCHANGED <<source, srcNotes, target, fsVars, flagVars, callVars, lastNote, query,
                   tasks, insCount, settled, prevClean, exitCodes>>

\* the head of one iteration of mergeNotes / mergeDetections: the LIMIT /
\* OFFSET scan, whose error ends the merge
mergeFetchBatch ==
    /\ pc = "mfetch"
    /\ \/ /\ pc' = "done"
          /\ result' = "error"
          /\ UNCHANGED <<batch, idx, offset, fetches>>
       \/ /\ batch' = ScanPage(IF driver = "mergeNotes" THEN srcNotes ELSE source,
                               offset, batchSize)
          /\ fetches' = Append(fetches, Len(batch'))
          /\ idx' = 1
          /\ IF batch' = <<>>
             THEN /\ offset' = offset + batchSize
                  /\ pc' = MergeLoopPc(offset', totalCount)
                  /\ result' = IF pc' = "done" THEN "completed" ELSE "none"
             ELSE /\ pc' = "minsert"
                  /\ UNCHANGED <<offset, result>>
    /\ UNCHANGED <<storeVars, fsVars, flagVars, callVars, entryVars, driver, lastNote, query,
                   totalCount, tasks, runNo, log, wmError, baseLen, insCount,
                   batchDone, settled, prevClean, exitCodes>>

\* one record of the inner loop of mergeNotes / mergeDetections
mergeInsertRecord ==
    /\ pc = "minsert"
    /\ LET row == batch[idx]
           note == IF driver = "mergeNotes" THEN CopyNote(srcNotes[row])
                   ELSE convertDetectionToNote(source[row])
       IN  \E ok \in BOOLEAN :
             /\ target' = IF ok THEN Create(target, note, row) ELSE target
             /\ log' = Append(log, [row |-> row, ok |-> ok])
    /\ IF idx < Len(batch)
       THEN /\ idx' = idx + 1
            /\ pc' = "minsert"
            /\ UNCHANGED <<offset, batchDone, result>>
       ELSE /\ idx' = idx
            /\ offset' = offset + batchSize
            /\ batchDone' = batchDone \cup Range(batch)
            /\ pc' = MergeLoopPc(offset', totalCount)
            /\ result' = IF pc' = "done" THEN "completed" ELSE "none"
    /\ UNCHANGED <<source, srcNotes, srcTables, fsVars, flagVars, callVars, entryVars, driver,
                   lastNote, query, totalCount, batch, tasks, runNo, fetches,
                   wmError, baseLen, insCount, settled, prevClean, exitCodes>>

(***************************************************************************)
(* A file transfer, handleFileTransferWithFS, as the goroutine runs it:    *)
(* one step per filesystem call, each of which may fail.  The two          *)
(* FileExists probes are one step: no step creates a source file, so a     *)
(* probe that fails stays failed.                                          *)
(***************************************************************************)
\* a faulty error path: the row of the record is taken back
targetAfterTransferError_rollback(notes, task) ==
    IF task.noteId > 0 /\ task.noteId <= Len(notes)
    THEN SubSeq(notes, 1, task.noteId - 1) ELSE notes

\* every error path of handleFileTransferWithFS is a log.Printf and a
\* return: the store is not touched
targetAfterTransferError(notes, task) == notes

\* a faulty MoveFile branch: the return after a failed WriteFile is missing
WriteErrorReturns_missing == FALSE

\* a failed WriteFile ends the transfer (the return of fileops.go:142-145)
WriteErrorReturns == TRUE

\* a faulty lookup: the return after the second failed probe is missing
NotFoundReturns_missing == FALSE

\* a source file found under neither name ends the transfer (the return of
\* fileops.go:82-85)
NotFoundReturns == TRUE

\* a faulty MkdirAll check: the return after the failure is missing
MkdirErrorReturns_missing == FALSE

\* a failed MkdirAll ends the transfer (the return of fileops.go:108-111)
MkdirErrorReturns == TRUE

\* a faulty MoveFile branch: a failed Remove ends the transfer as an error
RemoveErrorReturns_returns == TRUE

\* a failed Remove is logged and the transfer goes on to report "Moved"
\* (fileops.go:149-152)
RemoveErrorReturns == FALSE

\* a faulty date check: the return after the failed time.Parse is missing
ParseErrorReturns_missing == FALSE

\* a date and time that do not parse end the transfer (the return of
\* fileops.go:93-96)
ParseErrorReturns == TRUE

SetTask(j, t) == [tasks EXCEPT ![j] = t]

transferResolve(j) ==
    /\ tasks[j].pc = "resolve"
    /\ LET t == tasks[j]
           sourceFilePath == ResolveSourcePath(files, t.detection)
           newFileName == GenerateClipName(t.detection)
           parsedDate == ParseDateTime(t.detection.Date \o <<84>> \o t.detection.Time)
       IN  IF ~FileExists(files, sourceFilePath) /\ NotFoundReturns
           THEN /\ tasks' = SetTask(j, [t EXCEPT !.pc = "notfound"])
                /\ target' = targetAfterTransferError(target, t)
           ELSE IF ~parsedDate.ok /\ ParseErrorReturns
           THEN /\ tasks' = SetTask(j, [t EXCEPT !.pc = "parsefail",
                                                 !.src = sourceFilePath])
                /\ target' = targetAfterTransferError(target, t)
           ELSE /\ tasks' = SetTask(j,
                      [t EXCEPT !.pc = "mkdir", !.src = sourceFilePath,
                                !.dir = TargetSubDir(parsedDate),
                                !.dst = Join(TargetSubDir(parsedDate) \o <<newFileName>>)])
                /\ target' = target
    /\ UNCHANGED <<source, srcNotes, srcTables, fsVars, flagVars, callVars, entryVars, pc, loopVars,
                   result, histVars>>

transferMkdirAll(j) ==
    /\ tasks[j].pc = "mkdir"
    /\ \/ /\ dirs' = dirs \cup {tasks[j].dir}
          /\ tasks' = SetTask(j, [tasks[j] EXCEPT !.pc = "read"])
          /\ target' = target
       \/ /\ dirs' = dirs
          /\ tasks' = SetTask(j, [tasks[j] EXCEPT
                          !.pc = IF MkdirErrorReturns THEN "mkdirfail" ELSE "read"])
          /\ target' = IF MkdirErrorReturns
                       THEN targetAfterTransferError(target, tasks[j])
                       ELSE target
    /\ UNCHANGED <<source, srcNotes, srcTables, files, flagVars, callVars, entryVars, pc, loopVars,
                   result, histVars>>

transferReadFile(j) ==
    /\ tasks[j].pc = "read"
    /\ \/ /\ FileExists(files, tasks[j].src)
          /\ tasks' = SetTask(j, [tasks[j] EXCEPT !.pc = "write",
                                                  !.data = files[tasks[j].src]])
          /\ target' = target
       \/ /\ tasks' = SetTask(j, [tasks[j] EXCEPT !.pc = "readfail"])
          /\ target' = targetAfterTransferError(target, tasks[j])
    /\ UNCHANGED <<source, srcNotes, srcTables, fsVars, flagVars, callVars, entryVars, pc, loopVars,
                   result, histVars>>

\* a failed os.WriteFile leaves the destination as it was (the open failed)
\* or cut short (the write failed); cut short is the empty file here
transferWriteFile(j) ==
    /\ tasks[j].pc = "write"
    /\ \/ /\ files' = WriteFile(files, tasks[j].dst, tasks[j].data)
          /\ tasks' = SetTask(j, [tasks[j] EXCEPT
                          !.pc = IF mode = "copy" THEN "report" ELSE "remove",
                          !.wrote = TRUE])
          /\ target' = target
       \/ /\ files' \in {files, WriteFile(files, tasks[j].dst, <<>>)}
          /\ tasks' = SetTask(j, [tasks[j] EXCEPT
                          !.pc = IF WriteErrorReturns \/ mode = "copy"
                                 THEN "writefail" ELSE "remove"])
          /\ target' = IF WriteErrorReturns \/ mode = "copy"
                       THEN targetAfterTransferError(target, tasks[j])
                       ELSE target
    /\ UNCHANGED <<source, srcNotes, srcTables, dirs, flagVars, callVars, entryVars, pc, loopVars,
                   result, histVars>>

\* MoveFile only: fs.Remove, whose failure is logged and nothing more
transferRemove(j) ==
    /\ tasks[j].pc = "remove"
    /\ \/ /\ FileExists(files, tasks[j].src)
          /\ files' = Remove(files, tasks[j].src)
          /\ tasks' = SetTask(j, [tasks[j] EXCEPT !.pc = "report", !.removed = TRUE])
       \/ /\ files' = files
          /\ tasks' = SetTask(j, [tasks[j] EXCEPT
                          !.pc = IF RemoveErrorReturns THEN "removefail" ELSE "report"])
    /\ UNCHANGED <<storeVars, dirs, flagVars, callVars, entryVars, pc, loopVars, result, histVars>>

\* the transfer logs "Copied" or "Moved" and returns
transferReport(j) ==
    /\ tasks[j].pc = "report"
    /\ tasks' = SetTask(j, [tasks[j] EXCEPT
                    !.pc = IF mode = "copy" THEN "copied" ELSE "moved"])
    /\ UNCHANGED <<storeVars, files, dirs, flagVars, callVars, entryVars, pc, loopVars, result,
                   histVars>>

(***************************************************************************)
(* Initial states: the stores and directories the program is invoked on.   *)
(***************************************************************************)
\* source rows of the resume model: dates in both accepted forms, and ties
DetPoolDB ==
    {Detection(d, t, Com_TestBird, File_a) :
        d \in {Date_0114, Date_0115, Date_0115_RFC}, t \in {Time_10, Time_11}}

\* rows of a source store's notes table (a BirdNET-Go store to merge)
NotePool ==
    {convertDetectionToNote(Detection(Date_0114, Time_10, Com_TestBird, File_a)),
     convertDetectionToNote(Detection(Date_0115, Time_11, Com_TestBird, File_b))}

\* rows of a source store's detections table in a merge
MergeDetPool ==
    {Detection(Date_0115_RFC, Time_10, Com_TestBird, File_a),
     Detection(Date_0114, Time_11, Com_TestBird, File_a)}

\* source rows of the transfer model: two rows with the same destination
\* (a.wav and b.wav at the same date, time, scientific name and confidence),
\* two rows with the same source file (a.wav at two times, one of them with
\* its date in RFC3339 form), and a common name with an apostrophe
DetPool ==
    {Detection(Date_0115, Time_10, Com_TestBird, File_a),
     Detection(Date_0115, Time_10, Com_Stellers, File_b),
     Detection(Date_0115_RFC, Time_11, Com_TestBird, File_a)}

EmptyFS == [q \in {} |-> <<>>]

\* -source-dir is given, a move is confirmed, the target volume has room
EnvOK == [sourceDirGiven |-> TRUE, answerYes |-> TRUE, enoughSpace |-> TRUE]

\* no call of the file helpers is under way
NoCall ==
    [operation |-> "none", src |-> <<>>, dst |-> <<>>, pc |-> "idle",
     err |-> FALSE, copied |-> FALSE, removeCalled |-> FALSE,
     before |-> <<>>, calls |-> 0]

\* the run starts from an empty target with nothing done yet
InitRun ==
    /\ call = NoCall
    /\ target = <<>>
    /\ dirs = {}
    /\ pc = "idle"
    /\ driver = "none"
    /\ lastNote = <<>>
    /\ query = formulateQuery(<<>>)
    /\ totalCount = 0
    /\ offset = 0
    /\ batch = <<>>
    /\ idx = 0
    /\ tasks = <<>>
    /\ result = "none"
    /\ runNo = 0
    /\ log = <<>>
    /\ fetches = <<>>
    /\ wmError = FALSE
    /\ probeError = FALSE
    /\ baseLen = 0
    /\ insCount = [k \in 1..Len(source) |-> 0]
    /\ batchDone = {}
    /\ settled = {}
    /\ prevClean = FALSE
    /\ exitCodes = <<>>

\* the resume model: database only (-skip-audio-transfer), or a merge
InitDB ==
    /\ env = EnvOK
    /\ skipAudioTransfer = TRUE
    /\ files = EmptyFS
    /\ \/ /\ mode = "copy"
          /\ samePath = FALSE
          /\ source \in SeqsUpTo(DetPoolDB, MaxRecordsDB)
          /\ srcNotes = <<>>
          /\ srcTables \in {{"detections"}} \cup (IF source = <<>> THEN {{}} ELSE {})
          /\ dbFiles \in {{"source"}} \cup (IF srcTables = {} THEN {{}} ELSE {})
       \/ /\ mode = "merge"
          /\ samePath \in BOOLEAN
          /\ dbFiles \in IF samePath THEN {{}, {"source", "target"}}
                         ELSE SUBSET {"source", "target"}
          /\ source \in IF "source" \in dbFiles
                        THEN SeqsUpTo(MergeDetPool, MaxRecordsDB) ELSE {<<>>}
          \* one store under both names: its notes are the target's
          /\ srcNotes \in IF "source" \in dbFiles /\ ~samePath
                          THEN SeqsUpTo(NotePool, MaxRecordsDB) ELSE {<<>>}
          /\ srcTables \in {T \in SUBSET {"detections", "notes"} :
                               /\ source # <<>> => "detections" \in T
                               /\ srcNotes # <<>> => "notes" \in T
                               /\ "source" \notin dbFiles => T = {}}
    /\ InitRun

\* the transfer model: a copy or a move with the artifacts of the rows at
\* the verbatim path, at the formatted path, at both, or missing
InitFS ==
    /\ env = EnvOK
    /\ mode \in {"copy", "move"}
    /\ skipAudioTransfer \in BOOLEAN
    /\ samePath = FALSE
    /\ source \in SeqsUpTo(DetPool, MaxRecords)
    /\ srcNotes = <<>>
    /\ srcTables = IF source = <<>> THEN {} ELSE {"detections"}
    /\ dbFiles = IF source = <<>> THEN {} ELSE {"source"}
    /\ \E place \in [{SourcePathVerbatim(NormalizeDate(source[k])) : k \in 1..Len(source)}
                        -> {"verbatim", "formatted", "both", "missing"}] :
          files = [q \in {SourcePathVerbatim(NormalizeDate(source[k])) :
                             k \in {i \in 1..Len(source) :
                                 place[SourcePathVerbatim(NormalizeDate(source[i]))]
                                     \in {"verbatim", "both"}}}
                         \cup {SourcePathFormatted(NormalizeDate(source[k])) :
                             k \in {i \in 1..Len(source) :
                                 place[SourcePathVerbatim(NormalizeDate(source[i]))]
                                     \in {"formatted", "both"}}}
                     |-> Content(q)]
    /\ InitRun

\* source rows of the conversion model: a plain row; one that differs from
\* it in file name and in confidence below one percent; one with its date in
\* RFC3339 form; one at another time; a scientific name with a hyphen, a
\* colon and capitals; a date that no layout accepts; a row without a file
\* name; and a row with another extension
ConvPool ==
    {Detection(Date_0115, Time_10, Com_TestBird, File_a),
     [Detection(Date_0115, Time_10, Com_TestBird, File_b) EXCEPT !.Confidence = 8590],
     Detection(Date_0115_RFC, Time_10, Com_TestBird, File_a),
     Detection(Date_0115, Time_11, Com_TestBird, File_a),
     [Detection(Date_0115, Time_10, Com_TestBird, File_a)
         EXCEPT !.SciName = Sci_Sitta, !.Confidence = 8800],
     Detection(Date_0230, Time_10, Com_TestBird, File_a),
     [Detection(Date_0115, Time_1345, Com_Stellers, <<>>)
         EXCEPT !.SciName = Sci_Corvus, !.Confidence = 9500],
     [Detection(Date_0115, Time_1345, Com_TestBird, File_x_mp3)
         EXCEPT !.SciName = Sci_Corvus, !.Confidence = 9500]}

\* the conversion model: a copy or a move of rows of every shape, with the
\* artifact of each row that names a file at its verbatim path
InitConv ==
    /\ env = EnvOK
    /\ mode \in {"copy", "move"}
    /\ skipAudioTransfer = FALSE
    /\ samePath = FALSE
    /\ source \in SeqsUpTo(ConvPool, MaxRecords)
    /\ srcNotes = <<>>
    /\ srcTables \in {{"detections"}} \cup (IF source = <<>> THEN {{}} ELSE {})
    /\ dbFiles \in {{"source"}} \cup (IF srcTables = {} THEN {{}} ELSE {})
    /\ files = [q \in {SourcePathVerbatim(NormalizeDate(source[k])) :
                          k \in {i \in 1..Len(source) : source[i].FileName # <<>>}}
                    |-> Content(q)]
    /\ InitRun

\* source rows of the invocation model
MainPool == {Detection(Date_0115, Time_10, Com_TestBird, File_a)}

\* the invocation model: every value of -operation (not given, the three
\* operations, and one that is none of them), with and without audio
\* transfer, and everything main may find
InitMain ==
    /\ mode \in {"", "copy", "move", "merge", "sync"}
    /\ skipAudioTransfer \in BOOLEAN
    /\ env \in [sourceDirGiven : BOOLEAN, answerYes : BOOLEAN, enoughSpace : BOOLEAN]
    /\ samePath \in IF mode = "merge" THEN BOOLEAN ELSE {FALSE}
    /\ source \in SeqsUpTo(MainPool, MaxRecords)
    /\ srcNotes = <<>>
    /\ srcTables = IF source = <<>> THEN {} ELSE {"detections"}
    /\ dbFiles = IF source = <<>> THEN {}
                ELSE IF samePath THEN {"source", "target"} ELSE {"source"}
    /\ files = [q \in {SourcePathVerbatim(NormalizeDate(source[k])) :
                          k \in 1..Len(source)} |-> Content(q)]
    /\ InitRun

(***************************************************************************)
(* The file helpers: performFileOperationWithFS, copyFileWithFS and        *)
(* moveFileWithFS, one filesystem call at a time.                          *)
(***************************************************************************)
\* the paths the helpers are called with
MovePaths == {File_a, File_b}

\* what a file holds at the start
MoveContents == {<<1>>, <<1, 2>>}

\* the helper returns: nil if err is FALSE
Returned(err) == [call EXCEPT !.pc = "returned", !.err = err]

\* performFileOperationWithFS(src, dst, operation, fs): the switch
performFileOperationWithFS ==
    /\ pc = "idle"
    /\ call.pc \in {"idle", "returned"}
    /\ call.calls < MaxCalls
    /\ \E operation \in {"copy", "move", "none"}, src \in MovePaths, dst \in MovePaths :
          LET entered == [NoCall EXCEPT !.operation = operation, !.src = src,
                                        !.dst = dst, !.before = files,
                                        !.calls = call.calls + 1]
          IN  call' = IF operation \in {"copy", "move"}
                      THEN [entered EXCEPT !.pc = "open"]
                      ELSE [entered EXCEPT !.pc = "returned", !.err = TRUE]
    /\ UNCHANGED <<storeVars, fsVars, flagVars, entryVars, pc, loopVars, tasks, result,
                   histVars>>

\* copyFileWithFS: fs.Open(src)
fsOpen ==
    /\ call.pc = "open"
    /\ \E ok \in BOOLEAN :
          call' = IF ok /\ FileExists(files, call.src)
                  THEN [call EXCEPT !.pc = "create"] ELSE Returned(TRUE)
    /\ UNCHANGED <<storeVars, fsVars, flagVars, entryVars, pc, loopVars, tasks, result,
                   histVars>>

\* copyFileWithFS: fs.Create(dst), which truncates an existing file
fsCreate ==
    /\ call.pc = "create"
    /\ \E ok \in BOOLEAN :
          IF ok
          THEN /\ files' = WriteFile(files, call.dst, <<>>)
               /\ call' = [call EXCEPT !.pc = "copy"]
          ELSE /\ files' = files
               /\ call' = Returned(TRUE)
    /\ UNCHANGED <<storeVars, dirs, flagVars, entryVars, pc, loopVars, tasks, result,
                   histVars>>

\* copyFileWithFS: io.Copy(destinationFile, sourceFile) reads what the source
\* holds now and writes it to the destination; an error may stop it after
\* any number of bytes. moveFileWithFS goes on to fs.Remove after a copy
\* that returned nil, copyFileWithFS returns what io.Copy returned.
ioCopy ==
    /\ call.pc = "copy"
    /\ LET data == files[call.src]
       IN  \E n \in 0..Len(data), ok \in BOOLEAN :
             /\ ok => n = Len(data)
             /\ files' = WriteFile(files, call.dst, SubSeq(data, 1, n))
             /\ call' = IF ~ok THEN Returned(TRUE)
                        ELSE IF call.operation = "move"
                        THEN [call EXCEPT !.pc = "remove", !.copied = TRUE]
                        ELSE [Returned(FALSE) EXCEPT !.copied = TRUE]
    /\ UNCHANGED <<storeVars, dirs, flagVars, entryVars, pc, loopVars, tasks, result,
                   histVars>>

\* moveFileWithFS: return fs.Remove(src)
fsRemove ==
    /\ call.pc = "remove"
    /\ \E ok \in BOOLEAN :
          /\ files' = IF ok THEN Remove(files, call.src) ELSE files
          /\ call' = [Returned(~ok) EXCEPT !.removeCalled = TRUE]
    /\ UNCHANGED <<storeVars, dirs, flagVars, entryVars, pc, loopVars, tasks, result,
                   histVars>>

\* the file helpers called on a small filesystem
InitMove ==
    /\ env = EnvOK
    /\ mode = "move"
    /\ skipAudioTransfer = FALSE
    /\ samePath = FALSE
    /\ dbFiles = {}
    /\ source = <<>>
    /\ srcNotes = <<>>
    /\ srcTables = {}
    /\ \E D \in SUBSET MovePaths : files \in [D -> MoveContents]
    /\ InitRun

Init == InitDB \/ InitFS \/ InitConv \/ InitMain \/ InitMove

(***************************************************************************)
(* Specifications.                                                         *)
(***************************************************************************)
NextDB ==
    \/ convertAndTransferData
    \/ processRecordsInBatches
    \/ processDetection
    \/ MergeDatabases
    \/ mergeFetchBatch
    \/ mergeInsertRecord
    \/ Kill
    \/ Exit

NextFS ==
    \/ convertAndTransferData
    \/ processRecordsInBatches
    \/ processDetection
    \/ \E j \in 1..Len(tasks) : transferResolve(j)
    \/ \E j \in 1..Len(tasks) : transferMkdirAll(j)
    \/ \E j \in 1..Len(tasks) : transferReadFile(j)
    \/ \E j \in 1..Len(tasks) : transferWriteFile(j)
    \/ \E j \in 1..Len(tasks) : transferRemove(j)
    \/ \E j \in 1..Len(tasks) : transferReport(j)
    \/ Kill
    \/ Exit

NextConv ==
    \/ convertAndTransferData
    \/ processRecordsInBatches
    \/ processDetection
    \/ \E j \in 1..Len(tasks) : transferResolve(j)
    \/ \E j \in 1..Len(tasks) : transferMkdirAll(j)
    \/ \E j \in 1..Len(tasks) : transferReadFile(j)
    \/ \E j \in 1..Len(tasks) : transferWriteFile(j)
    \/ \E j \in 1..Len(tasks) : transferRemove(j)
    \/ \E j \in 1..Len(tasks) : transferReport(j)
    \/ Exit

NextMain ==
    \/ main
    \/ convertAndTransferData
    \/ processRecordsInBatches
    \/ processDetection
    \/ \E j \in 1..Len(tasks) : transferResolve(j)
    \/ \E j \in 1..Len(tasks) : transferMkdirAll(j)
    \/ \E j \in 1..Len(tasks) : transferReadFile(j)
    \/ \E j \in 1..Len(tasks) : transferWriteFile(j)
    \/ \E j \in 1..Len(tasks) : transferRemove(j)
    \/ \E j \in 1..Len(tasks) : transferReport(j)
    \/ MergeDatabases
    \/ mergeFetchBatch
    \/ mergeInsertRecord
    \/ Exit

\* the file helpers
NextMove ==
    \/ performFileOperationWithFS
    \/ fsOpen
    \/ fsCreate
    \/ ioCopy
    \/ fsRemove

Next == NextDB \/ NextFS \/ NextMain \/ NextMove

\* the whole program
Spec == Init /\ [][Next]_vars

\* the batch driver and the merge driver without file transfers
SpecDB == InitDB /\ [][NextDB]_vars

\* the batch driver with its file transfers
SpecFS == InitFS /\ [][NextFS]_vars

\* the program from its command line on
SpecMain == InitMain /\ [][NextMain]_vars

\* the file helpers on their own
SpecMove == InitMove /\ [][NextMove]_vars

\* the conversion of rows of every shape, with their file transfers
SpecConv == InitConv /\ [][NextConv]_vars

\* the resume model with a main goroutine that keeps running: every store
\* call of the batch loop returns, so the loop takes its next step unless the
\* process is killed
SpecDBFair ==
    /\ SpecDB
    /\ WF_vars(processRecordsInBatches)
    /\ WF_vars(processDetection)

(***************************************************************************)
(* Properties of the resume model (SpecDB).                                *)
(***************************************************************************)
\* how often this run has passed source row k to processDetection
TimesProcessed(k) == Cardinality({i \in 1..Len(log) : log[i].row = k})

\* the rows this run has added to the target store
AddedRows == SubSeq(target, baseLen + 1, Len(target))

\* the log entries of the inserts that succeeded
OkEntries == SelectSeq(log, LAMBDA e : e.ok)

BatchRunCompleted == pc = "done" /\ driver = "batch" /\ result = "completed"

\* C1: idempotent resume -- after a first run that completed with every
\* insert succeeding, a second run on the same source and target inserts no
\* record, whichever accepted form the source dates have.
IdempotentResume ==
    (runNo >= 2 /\ prevClean /\ driver = "batch" /\ pc \in {"fetch", "process", "done"})
        => Len(target) = baseLen

\* C2: after a kill and a re-invocation, no source row of a batch that had
\* been completed before the kill is inserted a second time.
CompletedBatchesNotReinserted ==
    mode # "merge" => \A k \in settled : insCount[k] <= 1

NoteOfEntry(e) ==
    IF driver = "mergeNotes" THEN CopyNote(srcNotes[e.row])
    ELSE convertDetectionToNote(source[e.row])

\* the rows a driver is to fetch
RowsToFetch ==
    IF driver = "batch" THEN Selected(source, query)
    ELSE IF driver = "mergeNotes" THEN 1..Len(srcNotes)
    ELSE 1..Len(source)

\* C4: insert failures are isolated, in the batch driver and in the merge
\* driver -- a run in which inserts were tried and no fetch failed ends by
\* reporting completion, having tried every row it was to fetch, and the
\* target has gained exactly the rows whose insert did not fail.
InsertFailuresIsolated ==
    (pc \in {"done", "fatal"} /\ driver # "none" /\ log # <<>> /\ result # "error") =>
        /\ result = "completed"
        /\ {log[i].row : i \in 1..Len(log)} = RowsToFetch
        /\ AddedRows = [i \in 1..Len(OkEntries) |-> NoteOfEntry(OkEntries[i])]

\* a completed batch run in which a row was inserted after the insert of
\* an earlier row had failed
WitnessInsertAfterFailure ==
    /\ BatchRunCompleted
    /\ \E i, j \in 1..Len(log) : i < j /\ ~log[i].ok /\ log[j].ok

\* the same for a completed merge
WitnessMergeInsertAfterFailure ==
    /\ pc = "done" /\ driver \in {"mergeNotes", "mergeDetections"}
    /\ result = "completed"
    /\ \E i, j \in 1..Len(log) : i < j /\ ~log[i].ok /\ log[j].ok

FailedPcs == {"notfound", "parsefail", "mkdirfail", "readfail", "writefail"}

\* task j ended by an error, a failed deletion of the source included
TransferFailed(j) ==
    \/ tasks[j].pc \in FailedPcs
    \/ tasks[j].pc = "moved" /\ ~tasks[j].removed

\* C5: a failed file transfer leaves the row inserted for its record in the
\* target store, unchanged.
TransferFailureKeepsRow ==
    \A j \in 1..Len(tasks) :
        (TransferFailed(j) /\ tasks[j].noteId > 0) =>
            /\ tasks[j].noteId <= Len(target)
            /\ target[tasks[j].noteId] = convertDetectionToNote(source[tasks[j].row])

\* transfers of inserted records have failed: one on a missing artifact,
\* or one on the write and one on the deletion of the source
WitnessFailedTransferOfInsertedRow ==
    /\ \E j \in 1..Len(tasks) : tasks[j].pc = "writefail" /\ tasks[j].noteId > 0
    /\ \E j \in 1..Len(tasks) :
          tasks[j].pc \in {"notfound", "readfail", "mkdirfail", "moved"}
          /\ TransferFailed(j) /\ tasks[j].noteId > 0

\* C6: in a move a source file is deleted only by a transfer whose write of
\* the destination has succeeded; a transfer whose read or write failed has
\* deleted nothing.
MoveDeletesOnlyAfterWrite ==
    [][/\ \A p \in DOMAIN files :
             p \notin DOMAIN files' =>
                 /\ mode = "move"
                 /\ \E j \in 1..Len(tasks) :
                       /\ tasks[j].src = p
                       /\ tasks[j].pc = "remove"
                       /\ tasks[j].wrote
                       /\ tasks'[j].removed
       /\ \A j \in 1..Len(tasks') :
             tasks'[j].pc \in {"readfail", "writefail"} =>
                 ~tasks'[j].removed /\ ~tasks'[j].wrote]_vars

\* a move in which one transfer has deleted its source after its write and
\* another, whose write failed, has left its source in place
WitnessMoveAndFailedWrite ==
    /\ mode = "move"
    /\ \E j \in 1..Len(tasks) :
          /\ tasks[j].pc = "moved" /\ tasks[j].removed
          /\ ~FileExists(files, tasks[j].src)
    /\ \E j \in 1..Len(tasks) :
          /\ tasks[j].pc = "writefail"
          /\ FileExists(files, tasks[j].src)

\* task j returns in this step
Returns(j, how) ==
    /\ j <= Len(tasks')
    /\ tasks[j].pc \in InFlightPcs
    /\ tasks'[j].pc = how

\* what a transfer that ends as copied leaves behind
CopiedPost(j) ==
    /\ tasks[j].src \in DOMAIN files'
    /\ tasks[j].dst \in DOMAIN files'
    /\ files'[tasks[j].dst] = files'[tasks[j].src]
    /\ files'[tasks[j].dst] = Content(tasks[j].src)

\* C7 as claimed: after a successful copy the source and the destination
\* exist with identical bytes; after a successful move the destination
\* exists with the source's original bytes and the source does not exist.
TransferPostcondition ==
    [][\A j \in 1..Len(tasks) :
          /\ Returns(j, "copied") => CopiedPost(j)
          /\ Returns(j, "moved") =>
                /\ tasks[j].dst \in DOMAIN files'
                /\ files'[tasks[j].dst] = Content(tasks[j].src)
                /\ tasks[j].src \notin DOMAIN files']_vars

\* another transfer has written, or tried to write, the destination of j
DestinationShared(j) ==
    \E i \in 1..Len(tasks) :
        /\ i # j
        /\ tasks[i].dst = tasks[j].dst
        /\ tasks[i].pc \in {"remove", "report", "copied", "moved", "writefail"}

\* C7 as amended: when a copy returns as copied the source and the
\* destination exist, and when a move returns as moved the destination
\* exists; the destination holds the source's original bytes unless another
\* record's transfer to the same destination path has written it in the
\* meantime; after the move the source does not exist if its deletion
\* succeeded.
TransferPostconditionAmended ==
    [][\A j \in 1..Len(tasks) :
          /\ Returns(j, "copied") =>
                /\ tasks[j].src \in DOMAIN files'
                /\ tasks[j].dst \in DOMAIN files'
                /\ \/ CopiedPost(j)
                   \/ DestinationShared(j)
          /\ Returns(j, "moved") =>
                /\ tasks[j].dst \in DOMAIN files'
                /\ \/ files'[tasks[j].dst] = Content(tasks[j].src)
                   \/ DestinationShared(j)
                /\ tasks'[j].removed => tasks[j].src \notin DOMAIN files']_vars

\* a move has ended with the destination holding the source's bytes and the
\* source gone
WitnessMoved ==
    \E j \in 1..Len(tasks) :
        /\ tasks[j].pc = "moved" /\ tasks[j].removed
        /\ FileExists(files, tasks[j].dst)
        /\ files[tasks[j].dst] = Content(tasks[j].src)
        /\ ~FileExists(files, tasks[j].src)

\* C8: when convertAndTransferData returns from a run with audio transfer,
\* the transfer of every record whose artifact exists (no transfer having
\* failed) has completed: the destination holds the source's content, and
\* the source remains under copy and is gone under move.
TransfersCompleteOnReturn ==
    (BatchRunCompleted /\ ~skipAudioTransfer) =>
        \A j \in 1..Len(tasks) :
            ~TransferFailed(j) =>
                /\ tasks[j].pc \in {"copied", "moved"}
                /\ FileExists(files, tasks[j].dst)
                /\ files[tasks[j].dst] = Content(tasks[j].src)
                /\ FileExists(files, tasks[j].src) = (mode = "copy")

\* C9: the number of transfers in flight at once stays below a cap that
\* does not grow with the number of records; such a cap is below the number
\* of records of some run, here a run of MaxRecords records.
InFlightTransfersCapped == Cardinality(InFlight) < MaxRecords

(***************************************************************************)
(* Properties of the watermark and of the batch loop.                      *)
(***************************************************************************)
\* the (date, time) of note a is before that of note b, as texts
NoteBefore(a, b) ==
    \/ StrLess(a.Date, b.Date)
    \/ a.Date = b.Date /\ StrLess(a.Time, b.Time)

\* the batch driver is past its watermark query, in or after the loop
InBatchLoop == driver = "batch" /\ pc \in {"fetch", "process", "done"}

\* C11: findLastEntryInTargetDB returns a record of the target store whose
\* (date, time) no record of the store exceeds under string comparison, and
\* returns no watermark (and no error: the run goes on) when the store is
\* empty.
WatermarkIsMaximum ==
    InBatchLoop =>
        IF baseLen = 0 THEN lastNote = <<>>
        ELSE /\ Len(lastNote) = 1
             /\ \E i \in 1..baseLen : target[i] = lastNote[1]
             /\ \A i \in 1..baseLen : ~NoteBefore(lastNote[1], target[i])

\* a run has started on a target store whose latest record is not the one
\* inserted last, and one on an empty store
WitnessWatermarkNotLastRow ==
    /\ InBatchLoop
    /\ baseLen >= 2
    /\ lastNote # <<>>
    /\ NoteBefore(target[baseLen], lastNote[1])

\* C12: in a run of the batch driver in which every insert has succeeded,
\* each insert makes the watermark (the maximal (date, time) of the target
\* store) strictly greater than it was before the insert.
WatermarkStrictlyIncreases ==
    [][(/\ driver = "batch"
        /\ pc = "process"
        /\ target # <<>>
        /\ Len(target') = Len(target) + 1
        /\ \A i \in 1..Len(log') : log'[i].ok)
          => NoteBefore(findLastEntryInTargetDB(target)[1],
                        findLastEntryInTargetDB(target')[1])]_vars

\* C13: when the watermark query has failed, the run is aborted: no page is
\* fetched, no record is inserted and no transfer is started.
WatermarkFailureAborts ==
    wmError =>
        /\ pc \in {"fatal", "exited"}
        /\ result = "fatal"
        /\ fetches = <<>>
        /\ batch = <<>>
        /\ log = <<>>
        /\ Len(target) = baseLen
        /\ tasks = <<>>

\* the watermark query of a second run has failed, with records to fetch,
\* audio transfer enabled and the first run's rows in the target store
WitnessWatermarkFailure ==
    /\ wmError
    /\ runNo = 2
    /\ ~skipAudioTransfer
    /\ source # <<>>
    /\ Len(target) > 0
    /\ pc = "exited"

Leaves(j, at) ==
    /\ j <= Len(tasks')
    /\ tasks[j].pc = at
    /\ tasks'[j].pc # at

\* task j has ended as how: it takes no further step
Ended(j, how) ==
    (tasks[j].pc = how /\ j <= Len(tasks')) => tasks'[j] = tasks[j]

\* neither candidate path of the record of task t exists
ArtifactMissing(t) ==
    /\ ~FileExists(files, SourcePathVerbatim(t.detection))
    /\ ~FileExists(files, SourcePathFormatted(t.detection))

\* C15: when the artifact of a record exists under neither name, the
\* transfer ends at the lookup: it leaves the files and the directories as
\* they are, under copy and under move, takes no further step, and the
\* main loop and its result are not affected.
MissingArtifactLeavesFilesystem ==
    [][\A j \in 1..Len(tasks) :
          /\ (Leaves(j, "resolve") /\ ArtifactMissing(tasks[j])) =>
                /\ tasks'[j].pc = "notfound"
                /\ files' = files /\ dirs' = dirs
                /\ target' = target
                /\ pc' = pc /\ result' = result
          /\ Ended(j, "notfound")]_vars

\* the transfer of a record has ended on a missing artifact, and the
\* transfer of the next record has been completed
WitnessMissingThenTransferred ==
    /\ Len(tasks) >= 2
    /\ tasks[1].pc = "notfound"
    /\ tasks[2].pc \in {"copied", "moved"}
    /\ FileExists(files, tasks[2].dst)

\* "Test_Bird" and "Stellers_Jay": the common names of the source rows with
\* spaces as underscores and without apostrophes
FormattedName(comName) ==
    IF comName = Com_TestBird
    THEN <<84, 101, 115, 116, 95, 66, 105, 114, 100>>
    ELSE <<83, 116, 101, 108, 108, 101, 114, 115, 95, 74, 97, 121>>

\* <root>/Extracted/By_Date/<date>/<name>/<file-name> for the record of t
CandidatePath(t, name) ==
    <<sourceFilesDir, Str_Extracted, Str_By_Date, t.detection.Date, name,
      t.detection.FileName>>

\* C16: the lookup takes the path with the verbatim common name if it
\* exists, and only if it does not the path with the formatted common name
\* if that exists; the path it took is the file the transfer reads.
SourceLookupOrder ==
    [][\A j \in 1..Len(tasks) :
          LET verbatim == CandidatePath(tasks[j], tasks[j].detection.ComName)
              formatted == CandidatePath(tasks[j],
                                         FormattedName(tasks[j].detection.ComName))
          IN  /\ Leaves(j, "resolve") =>
                    IF verbatim \in DOMAIN files
                    THEN tasks'[j].src = verbatim /\ tasks'[j].pc = "mkdir"
                    ELSE IF formatted \in DOMAIN files
                    THEN tasks'[j].src = formatted /\ tasks'[j].pc = "mkdir"
                    ELSE tasks'[j].pc = "notfound"
              /\ (j <= Len(tasks') /\ tasks[j].pc # "resolve") =>
                    tasks'[j].src = tasks[j].src
              /\ (Leaves(j, "read") /\ tasks'[j].pc = "write") =>
                    /\ tasks[j].src \in DOMAIN files
                    /\ tasks'[j].data = files[tasks[j].src]]_vars

\* one transfer has been completed from the formatted path, its verbatim
\* path missing, and one has taken the verbatim path with both in place
WitnessBothLookups ==
    /\ \E j \in 1..Len(tasks) :
          /\ tasks[j].pc \in {"copied", "moved"}
          /\ tasks[j].src = CandidatePath(tasks[j],
                                          FormattedName(tasks[j].detection.ComName))
          /\ files[tasks[j].dst] = Content(tasks[j].src)
    /\ \E j \in 1..Len(tasks) :
          /\ tasks[j].pc \notin {"resolve", "notfound"}
          /\ tasks[j].src = CandidatePath(tasks[j], tasks[j].detection.ComName)
          /\ FileExists(files, CandidatePath(tasks[j],
                                   FormattedName(tasks[j].detection.ComName)))

\* C17: when MkdirAll fails (the directory is not there after the call) the
\* transfer ends: no file is created, deleted or changed, under copy and
\* under move, the transfer takes no further step, and the main loop goes on
\* with the later records.
MkdirFailureEndsTransfer ==
    [][\A j \in 1..Len(tasks) :
          /\ (Leaves(j, "mkdir") /\ tasks[j].dir \notin dirs') =>
                /\ tasks'[j].pc = "mkdirfail"
                /\ ~tasks'[j].wrote /\ ~tasks'[j].removed
                /\ files' = files
                /\ pc' = pc /\ result' = result
          /\ Ended(j, "mkdirfail")]_vars

\* the transfer of a record has ended on MkdirAll with its source in place,
\* and the transfer of the next record has been completed
WitnessMkdirFailedThenTransferred ==
    /\ Len(tasks) >= 2
    /\ tasks[1].pc = "mkdirfail"
    /\ FileExists(files, tasks[1].src)
    /\ tasks[2].pc \in {"copied", "moved"}

\* C18: in a move, when the deletion of the source fails after the write of
\* the destination, the transfer still ends as moved: the failed deletion
\* leaves every file as it is (the destination with what was written, the
\* source in place), the transfer goes on to report and ends, and the
\* deletion is not tried again.
FailedDeletionStillMoved ==
    [][\A j \in 1..Len(tasks) :
          /\ (Leaves(j, "remove") /\ ~tasks'[j].removed) =>
                /\ tasks[j].wrote
                /\ tasks'[j].pc = "report"
                /\ files' = files
          /\ (Leaves(j, "report") /\ mode = "move") => tasks'[j].pc = "moved"
          /\ Ended(j, "moved")]_vars

\* a move has ended as moved after a failed deletion: the destination holds
\* the content of the source and the source is in place
WitnessMovedSourceLeft ==
    \E j \in 1..Len(tasks) :
        /\ mode = "move"
        /\ tasks[j].pc = "moved" /\ ~tasks[j].removed /\ tasks[j].wrote
        /\ FileExists(files, tasks[j].src)
        /\ FileExists(files, tasks[j].dst)
        /\ files[tasks[j].dst] = Content(tasks[j].src)

\* C19: with audio transfer disabled no transfer is started and no file or
\* directory is created, read, changed or deleted, while the run passes
\* every record it fetches to the insert and the target store gains the
\* record of every insert that succeeds.
SkipAudioTransferTouchesNoFile ==
    /\ [](skipAudioTransfer =>
            /\ tasks = <<>>
            /\ dirs = {}
            /\ BatchRunCompleted =>
                  /\ {log[i].row : i \in 1..Len(log)} = Selected(source, query)
                  /\ AddedRows = [i \in 1..Len(OkEntries) |->
                                     convertDetectionToNote(source[OkEntries[i].row])])
    /\ [][skipAudioTransfer => (files' = files /\ dirs' = dirs)]_vars

\* a run with audio transfer disabled has completed: two records inserted,
\* their artifacts in the source directory
WitnessSkippedTransfers ==
    /\ skipAudioTransfer
    /\ BatchRunCompleted
    /\ Len(log) = 2 /\ \A i \in 1..Len(log) : log[i].ok
    /\ Len(target) = baseLen + 2
    /\ DOMAIN files # {}

\* "pica_pica_85p_20230115T110000Z.wav": the clip of the detection of
\* Pica pica at confidence 0.85 on 2023-01-15 at 11:00:00 in a.wav
Clip_0115_11 ==
    <<112, 105, 99, 97, 95, 112, 105, 99, 97, 95, 56, 53, 112, 95, 50, 48, 50, 51,
      48, 49, 49, 53, 84, 49, 49, 48, 48, 48, 48, 90, 46, 119, 97, 118>>

\* task t is the transfer of the source row with the RFC3339 date
OfRFC3339Row(t) == source[t.row].Date = Date_0115_RFC

\* C20: the transfer of a record whose date is in RFC3339 form has the
\* record with the date normalized from its start on; its destination is
\* <target-root>/2023/01/<clip-name> with the clip name made from the
\* normalized date, the one stored in the record's row of the target store.
TransferUsesNormalizedDate ==
    \A j \in 1..Len(tasks) :
        OfRFC3339Row(tasks[j]) =>
            /\ tasks[j].detection.Date = Date_0115
            /\ tasks[j].pc # "parsefail"
            /\ tasks[j].pc \notin {"resolve", "notfound"} =>
                  /\ tasks[j].dst = <<targetFilesDir, <<50, 48, 50, 51>>, <<48, 49>>,
                                      Clip_0115_11>>
                  /\ tasks[j].dir = <<targetFilesDir, <<50, 48, 50, 51>>, <<48, 49>>>>
            /\ tasks[j].noteId > 0 =>
                  /\ target[tasks[j].noteId].Date = Date_0115
                  /\ target[tasks[j].noteId].ClipName = Clip_0115_11

\* the transfer of the record with the RFC3339 date has been completed and
\* its row is in the target store
WitnessRFC3339Transferred ==
    \E j \in 1..Len(tasks) :
        /\ OfRFC3339Row(tasks[j])
        /\ tasks[j].pc \in {"copied", "moved"}
        /\ tasks[j].noteId > 0
        /\ FileExists(files, tasks[j].dst)

(***************************************************************************)
(* Properties of the conversion (SpecConv): the target record and the clip *)
(* name made from a source record.                                         *)
(***************************************************************************)
\* the source row a transfer was started for, as fetchBatch scanned it
RowOf(j) == source[tasks[j].row]

\* the target record inserted for that row
NoteOf(j) == target[tasks[j].noteId]

\* C21: round-trip naming -- for every source record r, its date in either
\* accepted form, the clip name of the target record convertDetectionToNote
\* made from r equals GenerateClipName(r).
RoundTripNaming ==
    \A j \in 1..Len(tasks) :
        tasks[j].noteId > 0 => NoteOf(j).ClipName = GenerateClipName(RowOf(j))

\* the YYYY-MM-DD form of the dates of the source rows: "2023-01-15T10:00:00Z"
\* is 2023-01-15, "2023-01-15" is itself, and "2023-02-30" is no date
DateInYMD(date) ==
    IF date = Date_0115_RFC THEN Date_0115
    ELSE IF date = Date_0230 THEN <<>>
    ELSE date

\* C22: convertDetectionToNote gives the target record the YYYY-MM-DD form
\* of the source date when that parses as RFC3339 or as YYYY-MM-DD and the
\* original string otherwise (the conversion goes on); time, scientific
\* name, common name, confidence, latitude, longitude, threshold and
\* sensitivity are the source values; the verification status is unverified.
ConversionMapsFields ==
    \A j \in 1..Len(tasks) :
        tasks[j].noteId > 0 =>
            /\ NoteOf(j).Date = IF DateInYMD(RowOf(j).Date) # <<>>
                                THEN DateInYMD(RowOf(j).Date) ELSE RowOf(j).Date
            /\ NoteOf(j).Time = RowOf(j).Time
            /\ NoteOf(j).ScientificName = RowOf(j).SciName
            /\ NoteOf(j).CommonName = RowOf(j).ComName
            /\ NoteOf(j).Confidence = RowOf(j).Confidence
            /\ NoteOf(j).Latitude = RowOf(j).Lat
            /\ NoteOf(j).Longitude = RowOf(j).Lon
            /\ NoteOf(j).Threshold = RowOf(j).Cutoff
            /\ NoteOf(j).Sensitivity = RowOf(j).Sens
            /\ NoteOf(j).Verified = "unverified"

\* a row with a date in RFC3339 form and a row with a date that does not
\* parse have both been converted and inserted
WitnessBothDateFormsConverted ==
    \E j, k \in 1..Len(tasks) :
        /\ tasks[j].noteId > 0 /\ RowOf(j).Date = Date_0115_RFC
        /\ NoteOf(j).Date = Date_0115
        /\ tasks[k].noteId > 0 /\ RowOf(k).Date = Date_0230
        /\ NoteOf(k).Date = Date_0230

\* "pica_pica_85p_20230115T100000Z.wav"
Clip_pica_85_10 ==
    <<112, 105, 99, 97, 95, 112, 105, 99, 97, 95, 56, 53, 112, 95, 50, 48, 50, 51,
      48, 49, 49, 53, 84, 49, 48, 48, 48, 48, 48, 90, 46, 119, 97, 118>>

\* "sittaeuropaeacomplex_88p_20230115T100000Z.wav"
Clip_sitta_88 ==
    <<115, 105, 116, 116, 97, 101, 117, 114, 111, 112, 97, 101, 97, 99, 111, 109,
      112, 108, 101, 120, 95, 56, 56, 112, 95, 50, 48, 50, 51, 48, 49, 49, 53, 84,
      49, 48, 48, 48, 48, 48, 90, 46, 119, 97, 118>>

\* "corvus_corax_95p_20230115T134530Z.mp3"
Clip_corvus_95_mp3 ==
    <<99, 111, 114, 118, 117, 115, 95, 99, 111, 114, 97, 120, 95, 57, 53, 112, 95,
      50, 48, 50, 51, 48, 49, 49, 53, 84, 49, 51, 52, 53, 51, 48, 90, 46, 109, 112,
      51>>

\* the name <sanitized-name>_<P>p_<YYYYMMDDTHHMMSSZ>.<ext> of a row whose
\* date is 2023-01-15 and whose file name has an extension, written out:
\* Pica pica at 0.85 and at 0.859 is pica_pica_85p, Sitta-europaea:Complex
\* at 0.88 is sittaeuropaeacomplex_88p, Corvus corax at 0.95 in x.mp3 is
\* corvus_corax_95p with .mp3
ClipNameOf(r) ==
    IF r.SciName = Sci_Pica /\ r.Time = Time_10 THEN Clip_pica_85_10
    ELSE IF r.SciName = Sci_Pica /\ r.Time = Time_11 THEN Clip_0115_11
    ELSE IF r.SciName = Sci_Sitta THEN Clip_sitta_88
    ELSE Clip_corvus_95_mp3

\* the rows whose date and time parse as YYYY-MM-DDTHH:MM:SS and whose file
\* name has an extension
Parses(r) == r.Date = Date_0115 /\ r.FileName # <<>>

Unparsable(r) == r.Date = Date_0230

\* C24: when a record's date and time cannot be parsed, GenerateClipName
\* returns the empty string; the record's target row is still inserted, and
\* only that record's file transfer is abandoned: no destination file (none
\* with an empty file name either) is written and the source is not deleted.
UnparsableDateAbandonsTransferOnly ==
    /\ [](/\ Len(AddedRows) = Len(OkEntries)
          /\ \A q \in DOMAIN files : q[1] = targetFilesDir => Len(q) = 4
          /\ \A j \in 1..Len(tasks) :
                Unparsable(RowOf(j)) =>
                    /\ tasks[j].noteId > 0 =>
                          /\ NoteOf(j).ClipName = <<>>
                          /\ NoteOf(j).Date = Date_0230
                    /\ tasks[j].pc \in {"resolve", "parsefail"}
                    /\ tasks[j].dst = <<>>
                    /\ ~tasks[j].wrote /\ ~tasks[j].removed
                    /\ FileExists(files, SourcePathVerbatim(RowOf(j))))
    /\ [][\A j \in 1..Len(tasks) :
            Unparsable(RowOf(j)) =>
                /\ Ended(j, "parsefail")
                /\ Leaves(j, "resolve") =>
                      /\ tasks'[j].pc = "parsefail"
                      /\ files' = files /\ dirs' = dirs /\ target' = target]_vars

\* a move: the transfer of an inserted row with an unparsable date has been
\* abandoned, its source in place, and the transfer of another row has moved
\* its file
WitnessUnparsableAbandoned ==
    \E j, k \in 1..Len(tasks) :
        /\ mode = "move"
        /\ Unparsable(RowOf(j)) /\ tasks[j].noteId > 0
        /\ tasks[j].pc = "parsefail"
        /\ FileExists(files, tasks[j].src)
        /\ tasks[k].pc = "moved" /\ tasks[k].removed

\* ".wav"
Str_wav == <<46, 119, 97, 118>>

\* strings.HasSuffix(s, suffix), as the tests use it
HasSuffix(s, suffix) ==
    /\ Len(s) >= Len(suffix)
    /\ SubSeq(s, Len(s) - Len(suffix) + 1, Len(s)) = suffix

\* C25: for every detection with a valid date and time, GenerateClipName
\* (and the clip name convertDetectionToNote sets) is a non-empty name that
\* ends in .wav; the tests assert this for detections without an original
\* file name.
ClipNameEndsInWav ==
    \A j \in 1..Len(tasks) :
        (tasks[j].noteId > 0 /\ ~Unparsable(RowOf(j))) =>
            /\ NoteOf(j).ClipName # <<>>
            /\ HasSuffix(NoteOf(j).ClipName, Str_wav)

\* two transfers that have computed the same destination path
SameDestination(i, j) ==
    /\ tasks[i].dst # <<>>
    /\ tasks[i].dst = tasks[j].dst

Sanitized(sciName) ==
    ReplaceAll(ReplaceAll(ReplaceAll(ToLower(sciName), 32, <<95>>), 45, <<>>), 58, <<>>)

MergeUnderWay ==
    /\ mode = "merge"
    /\ pc \in {"mfetch", "minsert", "done"}
    /\ result \notin {"samePathError", "sourceMissing"}

\* a merge has returned nil after its loop, and no insert of it failed
MergeSucceeded ==
    /\ MergeUnderWay
    /\ pc = "done" /\ result = "completed"
    /\ \A i \in 1..Len(log) : log[i].ok

\* C27: MergeDatabases routes by the contents of the source store -- a
\* non-empty notes table is copied, also when the detections table holds
\* rows too; with the notes table empty or absent a non-empty detections
\* table is converted and copied; with every table there is empty the merge
\* returns success and leaves the records of the target store as they are.
MergeRoutesByContents ==
    /\ []((MergeUnderWay /\ ~probeError) =>
            /\ srcNotes # <<>> => driver = "mergeNotes"
            /\ (srcNotes = <<>> /\ source # <<>>) => driver = "mergeDetections"
            /\ (srcNotes = <<>> /\ source = <<>>) =>
                  /\ driver = "none"
                  /\ result = "nothingToMerge"
                  /\ Len(target) = baseLen
            /\ (MergeSucceeded /\ driver = "mergeNotes") =>
                  AddedRows = [i \in 1..Len(srcNotes) |-> CopyNote(srcNotes[i])]
            /\ (MergeSucceeded /\ driver = "mergeDetections") =>
                  AddedRows = [i \in 1..Len(source) |->
                                  convertDetectionToNote(source[i])])
    /\ [][(mode = "merge" /\ result' = "nothingToMerge") => target' = target]_vars

\* a merge of a source with rows in both tables has copied the notes and
\* none of the detections
WitnessNotesPreferred ==
    /\ MergeSucceeded /\ ~probeError
    /\ Len(srcNotes) = 2 /\ Len(source) = 2
    /\ driver = "mergeNotes"
    /\ Len(target) = baseLen + 2

\* the records of the source store a merge copies: the notes, or the notes
\* converted from the detections
MergedRecords ==
    IF driver = "mergeNotes"
    THEN [i \in 1..Len(srcNotes) |-> CopyNote(srcNotes[i])]
    ELSE [i \in 1..Len(source) |-> convertDetectionToNote(source[i])]

\* C28: after MergeDatabases has succeeded with every insert succeeding, the
\* target store holds every record it held before and exactly one new record
\* per source record, each under an identifier the target assigned (the
\* next free one, not the record's identifier in the source), whatever the
\* (date, time) of the records the target held: the watermark does not gate
\* a merge.
MergeAddsEverySourceRecord ==
    /\ [](MergeSucceeded =>
            /\ Len(target) = baseLen + Len(MergedRecords)
            /\ \A i \in 1..Len(MergedRecords) : target[baseLen + i] = MergedRecords[i])
    /\ [][mode = "merge" =>
            /\ Len(target') >= Len(target)
            /\ SubSeq(target', 1, Len(target)) = target]_vars

\* a second merge of the same source has succeeded: the target held records
\* before it, none of the records added is later than the latest of those,
\* and the records added are at other positions than in the source
WitnessMergeBehindWatermark ==
    /\ MergeSucceeded
    /\ baseLen > 0
    /\ Len(target) = baseLen + 2
    /\ \A i \in baseLen + 1..Len(target) :
          ~NoteBefore(findLastEntryInTargetDB(SubSeq(target, 1, baseLen))[1],
                      target[i])

\* the step is the entry of an invocation
Enters == runNo' # runNo

\* no store file is created and no table is added or changed
StoresUntouched ==
    /\ dbFiles' = dbFiles
    /\ srcTables' = srcTables
    /\ source' = source /\ srcNotes' = srcNotes /\ target' = target

\* C29: MergeDatabases called with identical source and target paths returns
\* an error before any store is opened or modified.
SamePathIsRejected ==
    /\ []((mode = "merge" /\ samePath) =>
            /\ pc \in {"idle", "done", "exited"}
            /\ driver = "none"
            /\ runNo > 0 => result = "samePathError")
    /\ [][(mode = "merge" /\ samePath) => StoresUntouched]_vars

\* a merge of a store with itself has been rejected: the store, which has a
\* detections table with rows, has still no notes table
WitnessSamePathRejected ==
    /\ mode = "merge" /\ samePath
    /\ pc = "done" /\ result = "samePathError"
    /\ "source" \in dbFiles
    /\ source # <<>>
    /\ "notes" \notin srcTables

\* C30: MergeDatabases called with a source path that does not exist returns
\* an error and neither creates the source store nor creates or modifies the
\* target store.
MissingSourceIsRejected ==
    /\ []((mode = "merge" /\ ~samePath /\ "source" \notin dbFiles) =>
            /\ pc \in {"idle", "done", "exited"}
            /\ driver = "none"
            /\ runNo > 0 => result = "sourceMissing")
    /\ [][(mode = "merge" /\ ~samePath /\ "source" \notin dbFiles) =>
            StoresUntouched]_vars

\* a merge from a path that does not exist has been rejected: there is
\* neither a source store nor a target store afterwards
WitnessMissingSourceRejected ==
    /\ mode = "merge" /\ ~samePath
    /\ pc = "done" /\ result = "sourceMissing"
    /\ dbFiles = {}

(***************************************************************************)
(* Properties of the command line (SpecMain).                              *)
(***************************************************************************)
\* the exit status of the invocation that has just ended
LastExit == exitCodes[Len(exitCodes)]

\* the invocation has a fatal configuration error: an operation that is not
\* a transfer mode or merge, or one store under both names in a merge
ConfigurationError ==
    \/ mode \notin {"", "copy", "move", "merge"}
    \/ mode = "merge" /\ samePath

\* C31: a fatal configuration error (an invalid transfer mode, or identical
\* source and target store paths in merge mode) makes the process exit with
\* a non-zero status before any work begins.
ConfigurationErrorExitsNonZero ==
    (ConfigurationError /\ pc = "exited") =>
        /\ LastExit # 0
        /\ target = <<>> /\ tasks = <<>> /\ dirs = {}

\* C32: when the -operation flag is not given, the tool runs with the
\* documented default operation, copy.
OperationDefaultsToCopy ==
    (mode = "" /\ pc = "exited") =>
        /\ result \in {"completed", "noDetections", "sourceMissing", "fatal"}
        /\ (result = "completed" /\ \A i \in 1..Len(log) : log[i].ok) =>
              Len(target) >= Len(source)

(***************************************************************************)
(* Properties of a run as a whole: a missing source store, interruption    *)
(* and resumption, and what a run leaves of the source.                    *)
(***************************************************************************)
\* a copy or a move from a source store path that does not exist
SourceStoreMissing == mode \in {"copy", "move"} /\ "source" \notin dbFiles

\* C33: convertAndTransferData called with a source store path that does
\* not exist returns without creating the target store (or any store) and
\* without inserting or transferring anything.
MissingSourceStopsRun ==
    /\ [](SourceStoreMissing =>
            /\ "target" \notin dbFiles
            /\ target = <<>> /\ log = <<>>
            /\ tasks = <<>> /\ dirs = {}
            /\ pc \in {"idle", "done", "exited"}
            /\ runNo > 0 => result = "sourceMissing")
    /\ [][SourceStoreMissing =>
            /\ dbFiles' = dbFiles
            /\ target' = target /\ files' = files /\ dirs' = dirs]_vars

\* a copy with audio transfer from a path that does not exist has returned:
\* there is no store file
WitnessMissingSourceReturned ==
    /\ SourceStoreMissing /\ ~skipAudioTransfer
    /\ pc = "done" /\ result = "sourceMissing"
    /\ dbFiles = {}

\* source row k is in the target store
InTarget(k) ==
    \E i \in 1..Len(target) : target[i] = convertDetectionToNote(source[k])

\* the second run has completed with every insert of it succeeding, after a
\* first run that was killed
ResumedToCompletion ==
    /\ runNo = 2
    /\ exitCodes[1] = -1
    /\ BatchRunCompleted
    /\ \A i \in 1..Len(log) : log[i].ok

\* C34: after a run is interrupted at any point and the pipeline is re-run
\* to completion on the same source with every insert succeeding, every
\* source record is in the target store at least once, also the records
\* that share the (date, time) of the last record inserted before the
\* interruption and the records whose insert had failed in the earlier run.
ResumeCoversEverySourceRecord ==
    ResumedToCompletion => \A k \in 1..Len(source) : InTarget(k)

\* the bytes of the artifact that was at source path p are in full at p or
\* at the destination of a transfer of p
ArtifactHeld(p) ==
    \/ FileExists(files, p) /\ files[p] = Content(p)
    \/ \E k \in 1..Len(tasks) :
          /\ tasks[k].src = p /\ tasks[k].dst # <<>>
          /\ FileExists(files, tasks[k].dst)
          /\ files[tasks[k].dst] = Content(p)

\* C35: under Move, in every state of every interleaving of the dispatched
\* transfers, the bytes of each source artifact exist in full at its source
\* path or at its destination path, also when two records resolve to the
\* same destination path or to the same source file.
MoveKeepsEveryArtifact ==
    mode = "move" =>
        \A j \in 1..Len(tasks) : tasks[j].src # <<>> => ArtifactHeld(tasks[j].src)

\* the destination path of the artifact of a target record
DestinationOf(note) ==
    Join(TargetSubDir(ParseDateTime(note.Date \o <<84>> \o note.Time))
            \o <<note.ClipName>>)

\* the source artifact of source row k exists
ArtifactExists(k) ==
    FileExists(files, ResolveSourcePath(files, NormalizeDate(source[k])))

\* the second run has completed, every transfer it started has returned and
\* none of them failed
ResumedWithTransfers ==
    /\ runNo = 2
    /\ ~skipAudioTransfer
    /\ BatchRunCompleted
    /\ \A j \in 1..Len(tasks) : tasks[j].pc \in {"copied", "moved"}

\* C36: for every record in the target store whose source artifact exists,
\* the artifact is at its destination once the pipeline has been re-run to
\* completion, also when the earlier run was killed (or returned) after the
\* record's insert and before its transfer finished.
ResumeCompletesTransfers ==
    ResumedWithTransfers =>
        \A k \in 1..Len(source) :
            (InTarget(k) /\ ArtifactExists(k)) =>
                FileExists(files, DestinationOf(convertDetectionToNote(source[k])))

\* processDetection has just handled a record of the batch run
RecordProcessed ==
    /\ driver = "batch"
    /\ Len(log') = Len(log) + 1

\* C37: with audio transfer enabled, every record processDetection handles
\* gets a transfer of its own, started right after the insert whether the
\* insert succeeded or failed, and the transfer started after a failed insert
\* takes the same first step as any other.
TransferDispatchedWhateverTheInsert ==
    [][(RecordProcessed /\ ~skipAudioTransfer) =>
          /\ Len(tasks') = Len(tasks) + 1
          /\ tasks'[Len(tasks')] =
                NewTask(log'[Len(log')].row,
                        TransferDetection(source[log'[Len(log')].row]),
                        IF log'[Len(log')].ok THEN Len(target') ELSE 0)]_vars

\* a record whose insert failed is not in the target store, and its artifact
\* has been moved to the destination and removed from the source
WitnessFailedInsertStillMoved ==
    /\ mode = "move"
    /\ \E j \in 1..Len(tasks) :
          /\ tasks[j].noteId = 0
          /\ tasks[j].pc = "moved"
          /\ ~InTarget(tasks[j].row)
          /\ ~FileExists(files, tasks[j].src)
          /\ FileExists(files, tasks[j].dst)
          /\ files[tasks[j].dst] = Content(tasks[j].src)

\* ---------------------------------------------------------------------
\* The source store
\* ---------------------------------------------------------------------

\* a step leaves the tables and the rows of the source store as they were
SourceStoreKept ==
    /\ srcTables' = srcTables
    /\ source' = source
    /\ srcNotes' = srcNotes

\* C38: neither the batch run nor the merge writes to the source store: no
\* step of either adds a table to it or changes a row of it.
SourceStoreNeverWritten == [][SourceStoreKept]_vars

\* ---------------------------------------------------------------------
\* moveFileWithFS
\* ---------------------------------------------------------------------

\* moveFileWithFS has returned
MoveReturned == call.operation = "move" /\ call.pc = "returned"

====
